---- MODULE Spec2Model ----
(***************************************************************************)
(* A model of the autonomous agent: the memory document and its folds      *)
(* (src/src/memory.py), the artifact recorders and the action cycle        *)
(* (src/src/agent.py).                                                     *)
(*                                                                         *)
(* Texts.  A Python string is modelled by the sequence of its lines, the   *)
(* value of text.split("\n"): it is never empty, the empty string is       *)
(* <<Blank>>, and a text that ends with a newline ends with a Blank line.  *)
(* a + "\n" + b is therefore a \o b.  A line is a record                   *)
(*    [k |-> kind, n |-> its text after the marker, len |-> its length in  *)
(*     characters, ts |-> a timestamp it carries (0 when none)]            *)
(* with kind "h1" ("# n"), "h2" ("## n"), "h3" ("### n"), "h4" ("#### Search *)
(* Query: n"), "txt" (a line of prose that holds no '#', no backslash and  *)
(* ends its sentence with a full stop), "obs" ("Finding: n") and "rel"     *)
(* ("Related: n"), the lines the heuristic extraction picks up, "topic"    *)
(* ("- n", a web search topic), "sum" and "sum_" (one action summary, the  *)
(* latter ending with a blank), "h2cut" and "cut" (a line cut by a         *)
(* character slice, which still starts with "## " or does not) and "blank" *)
(* (the empty line).  The regular expressions of the code are computed on  *)
(* the lines as Python's re computes them on the characters.               *)
(***************************************************************************)
EXTENDS Integers, Sequences, FiniteSets, TLC

\* ------------------------------------------------------------- bounds

\* Memory(config).max_tokens: the configured budget is max_tokens * 4 characters.
max_tokens == 300

\* How many folds one behaviour of the memory specification performs.
MaxFolds == 3

\* ------------------------------------------------------------- lines

Blank == [k |-> "blank", n |-> "", len |-> 0, ts |-> 0]

\* The length in characters of a section name.
NameLen(n) ==
  CASE n = "Agent Identity and Goal" -> 23
    [] n = "Progress Summary" -> 16
    [] n = "Recent Actions and Outcomes" -> 27
    [] n = "Next Steps and Planning" -> 23
    [] n = "Insights and Learnings" -> 22
    [] n = "Web Search Topics" -> 17
    [] n = "Action Summaries" -> 16
    [] n = "Action Taken at" -> 15
    [] n = "Progress Assessment" -> 19
    [] n = "Outcome and Learning Report" -> 27
    [] n = "Outcome" -> 7
    [] n = "Next Steps" -> 10
    [] n = "Next Action" -> 11
    [] n = "Learnings" -> 9
    [] n = "WEB_SEARCH" -> 10
    [] n = "FINDING" -> 7
    [] n = "CONNECTION" -> 10
    [] n = "DISCOVERY_DECLARATION" -> 21
    [] n = "Autonomous Agent Memory" -> 23
    [] n = "Web Search Results and Analysis" -> 31
    [] OTHER -> 6

H1(n) == [k |-> "h1", n |-> n, len |-> 2 + NameLen(n), ts |-> 0]
H2(n) == [k |-> "h2", n |-> n, len |-> 3 + NameLen(n), ts |-> 0]
H3(n) == [k |-> "h3", n |-> n, len |-> 4 + NameLen(n), ts |-> 0]
Txt(n, l) == [k |-> "txt", n |-> n, len |-> l, ts |-> 0]

Topic(n, l) == [k |-> "topic", n |-> n, len |-> 2 + l, ts |-> 0]

\* "Finding: <n>" and "Related: <n>", n taking l characters.
Obs(n, l) == [k |-> "obs", n |-> n, len |-> 9 + l, ts |-> 0]
Rel(n, l) == [k |-> "rel", n |-> n, len |-> 9 + l, ts |-> 0]

\* "#### Search Query: <query>", for the line that holds the query.
SearchHeading(query) == [k |-> "h4", n |-> query.n, len |-> 19 + query.len, ts |-> 0]

\* "## Action Taken at <timestamp>": the heading of the raw-response entry
\* (timestamp 0: such a line quoted by a response).
ActionHeading(t) == [k |-> "h2", n |-> "Action Taken at", len |-> 38, ts |-> t]

\* ------------------------------------------------------------- texts

Empty == <<Blank>>

IsEmpty(t) == t = Empty

Sub(t, a, b) == IF a > b THEN << >> ELSE SubSeq(t, a, b)

RECURSIVE SumLen(_)
SumLen(t) == IF t = << >> THEN 0 ELSE Head(t).len + SumLen(Tail(t))

\* len(text): the characters of the lines and the newlines between them.
TextLen(t) == SumLen(t) + Len(t) - 1

RECURSIVE LStrip(_)
LStrip(t) ==
  IF Len(t) > 1 /\ Head(t) = Blank THEN LStrip(Tail(t)) ELSE t

\* A line without the blank it ends with: only a summary that ends with
\* "Progress: ... " or "Outcome: ... " ("sum_") ends with one.
RStripLine(l) == IF l.k = "sum_" THEN [l EXCEPT !.k = "sum", !.len = @ - 1] ELSE l

RECURSIVE RStrip(_)
RStrip(t) ==
  IF Len(t) > 1 /\ t[Len(t)] = Blank THEN RStrip(Sub(t, 1, Len(t) - 1))
  ELSE Sub(t, 1, Len(t) - 1) \o <<RStripLine(t[Len(t)])>>

\* str.strip(): a line of the model has no blanks of its own at its ends.
Strip(t) == RStrip(LStrip(t))

Min(S) == CHOOSE x \in S : \A y \in S : x <= y

\* ------------------------------------------------- the section patterns

\* The line ends with "## <name>": the text "## <name>\n" of the patterns
\* rf"## {section_name}\n..." is found in it, also inside "### <name>".
HeadingNamed(l, name) ==
  l.k \in {"h2", "h3", "topic"} /\ l.n = name /\ l.ts = 0

\* The line starts with "## ": what "\n## " of the patterns needs after a newline.
StartsMajor(l) == l.k \in {"h2", "h2cut"}

\* The line holds "###": what (?=###|$) and ###\s+[^#\n]+ stop at.
HoldsMinor(l) == l.k \in {"h3", "h4"}

\* re.search(rf"## {name}\n", t) from line p on: the first line that ends with
\* the heading and has a newline after it; 0 when there is none.
FirstHeading(t, name, p) ==
  LET S == {i \in p..(Len(t) - 1) : HeadingNamed(t[i], name)}
  IN IF S = {} THEN 0 ELSE Min(S)

\* Where the lazy [\s\S]*? of the body stops after the heading of line i: at the
\* end of the first line k > i that is the last one, or is followed by a line
\* starting with "## ", or is followed by the newline that ends the text ($).
\* The newline of the heading is part of the heading's match, so a "## " line
\* right after the heading is inside the body.
SectionEnd(t, i) ==
  Min({k \in (i + 1)..Len(t) :
         \/ k = Len(t)
         \/ StartsMajor(t[k + 1])
         \/ (k + 1 = Len(t) /\ t[k + 1] = Blank)})

\* The same for rf"### {name}\n([\s\S]*?)(?:\n### |$)".
FirstMinorHeading(t, name) ==
  LET S == {i \in 1..(Len(t) - 1) : t[i].k = "h3" /\ t[i].n = name}
  IN IF S = {} THEN 0 ELSE Min(S)

MinorSectionEnd(t, i) ==
  Min({k \in (i + 1)..Len(t) :
         \/ k = Len(t)
         \/ t[k + 1].k = "h3"
         \/ (k + 1 = Len(t) /\ t[k + 1] = Blank)})

\* Memory._extract_section
ExtractSection(content, section_name) ==
  LET i == FirstHeading(content, section_name, 1)
      j == FirstMinorHeading(content, section_name)
  IN IF i # 0 THEN Strip(Sub(content, i + 1, SectionEnd(content, i)))
     ELSE IF j # 0 THEN Strip(Sub(content, j + 1, MinorSectionEnd(content, j)))
     ELSE Empty

\* re.sub(pattern, formatted_new_content, content) from line p on: every match,
\* left to right, becomes the heading and the new body.
RECURSIVE SubstituteFrom(_, _, _, _)
SubstituteFrom(t, name, body, p) ==
  LET i == FirstHeading(t, name, p)
  IN IF i = 0 THEN Sub(t, p, Len(t))
     ELSE Sub(t, p, i - 1) \o <<t[i]>> \o body
            \o SubstituteFrom(t, name, body, SectionEnd(t, i) + 1)

\* Memory._replace_section
ReplaceSection(content, section_name, new_content) ==
  IF FirstHeading(content, section_name, 1) # 0
  THEN SubstituteFrom(content, section_name, Strip(new_content), 1)
  ELSE Strip(content) \o <<Blank>> \o <<H2(section_name)>> \o Strip(new_content)

\* The line after which a minor section that starts at line i ends: the one
\* before the next line holding "###", or the last.
NextMinor(t, i) ==
  LET S == {j \in (i + 1)..Len(t) : HoldsMinor(t[j])}
  IN IF S = {} THEN Len(t) + 1 ELSE Min(S)

\* Memory._split_into_sections: the names of the "### " sections of a text ...
SectionNames(content) ==
  {content[i].n : i \in {j \in 1..(Len(content) - 1) : HoldsMinor(content[j])}}

\* What the body of a section holds of the line j that ends it: nothing (the
\* newline before it), or the first "#" of a "#### " line, which
\* (?=###\s+[^#\n]+|\Z) leaves to the body.
StrayMark(t, j) ==
  IF j <= Len(t) /\ t[j].k = "h4" THEN <<Txt("#", 1)>> ELSE <<Blank>>

\* ... and the body kept for a name: the last section of that name wins.
SplitIntoSections(content) ==
  [name \in SectionNames(content) |->
     LET i == CHOOSE j \in 1..(Len(content) - 1) :
                /\ HoldsMinor(content[j]) /\ content[j].n = name
                /\ \A m \in (j + 1)..(Len(content) - 1) :
                     ~(HoldsMinor(content[m]) /\ content[m].n = name)
         j == NextMinor(content, i)
     IN Strip(Sub(content, i + 1, j - 1) \o StrayMark(content, j))]

\* ------------------------------------------------------ the memory folds

\* A table that would also feed the progress assessment to the recent actions.
ProgressFeedsActions ==
  << <<"Progress Summary", <<"Progress Assessment", "Current Status", "Observations">> >>,
     <<"Recent Actions and Outcomes",
       <<"Outcome", "Outcome and Learning Report", "Progress Assessment">> >>,
     <<"Next Steps and Planning", <<"Next Steps", "Next Action">> >>,
     <<"Insights and Learnings", <<"Learnings", "Learning", "Outcome and Learning">> >> >>

\* Memory.update_memory_sections, sections_to_update: each persistent section
\* and the minor sections of a response that feed it, in the order tried.
SectionsToUpdate ==
  << <<"Progress Summary", <<"Progress Assessment", "Current Status", "Observations">> >>,
     <<"Recent Actions and Outcomes", <<"Outcome", "Outcome and Learning Report">> >>,
     <<"Next Steps and Planning", <<"Next Steps", "Next Action">> >>,
     <<"Insights and Learnings", <<"Learnings", "Learning", "Outcome and Learning">> >> >>

\* The first pattern of the list that is a section of the response, 0 when none:
\* the loop breaks at the first pattern present, whatever its body.
FirstPresent(patterns, action_sections) ==
  LET S == {m \in 1..Len(patterns) : patterns[m] \in DOMAIN action_sections}
  IN IF S = {} THEN 0 ELSE Min(S)

\* Memory.update_memory_sections, the updates dictionary: its keys ...
UpdateKeys(action_sections) ==
  {m \in 1..Len(SectionsToUpdate) :
     FirstPresent(SectionsToUpdate[m][2], action_sections) # 0}

\* ... and the content found for a key.
UpdateContent(action_sections, m) ==
  action_sections[SectionsToUpdate[m][2][FirstPresent(SectionsToUpdate[m][2], action_sections)]]

\* Memory.update_memory_sections, the loop over updates.items() from entry m on.
RECURSIVE ApplyUpdates(_, _, _)
ApplyUpdates(memory_content, action_sections, m) ==
  IF m > Len(SectionsToUpdate) THEN memory_content
  ELSE IF m \in UpdateKeys(action_sections)
          /\ ~IsEmpty(Strip(UpdateContent(action_sections, m)))
       THEN ApplyUpdates(ReplaceSection(memory_content, SectionsToUpdate[m][1],
                                        UpdateContent(action_sections, m)),
                         action_sections, m + 1)
       ELSE ApplyUpdates(memory_content, action_sections, m + 1)

\* Memory.update_memory_sections: whether it writes the memory file, and what.
UpdateMemorySections(memory_content, action_result) ==
  LET action_sections == SplitIntoSections(action_result)
  IN [written |-> UpdateKeys(action_sections) # {},
      doc |-> ApplyUpdates(memory_content, action_sections, 1)]

\* The memory file after update_memory_sections(memory_content, action_result).
AfterSections(file, memory_content, action_result) ==
  LET u == UpdateMemorySections(memory_content, action_result)
  IN IF u.written THEN u.doc ELSE file

\* The budget in characters: self.max_tokens * 4.
Budget == max_tokens * 4

\* A line cut to its first c characters (0 < c < its length): the head of a
\* "## " line that keeps "## " still starts a section for the patterns; any
\* other cut line is prose.
CutHead(l, c) ==
  [k |-> IF l.k \in {"h2", "h2cut"} /\ c >= 3 THEN "h2cut" ELSE "cut",
   n |-> l.n, len |-> c, ts |-> l.ts]

\* A line cut to its last c characters: "### <name>" less its first character
\* is the line "## <name>"; any other cut line is prose.
CutTail(l, c) ==
  IF l.k = "h3" /\ c = l.len - 1 THEN [k |-> "h2", n |-> l.n, len |-> c, ts |-> 0]
  ELSE [k |-> "cut", n |-> l.n, len |-> c, ts |-> l.ts]

\* text[:c], the first c characters: whole lines and the head of one more.
RECURSIVE TakeChars(_, _)
TakeChars(t, c) ==
  IF c <= 0 THEN Empty
  ELSE IF Head(t).len >= c
       THEN IF Head(t).len = c THEN <<Head(t)>> ELSE <<CutHead(Head(t), c)>>
       ELSE IF Len(t) = 1 THEN t
            ELSE <<Head(t)>> \o TakeChars(Tail(t), c - Head(t).len - 1)

\* text[-c:], the last c characters (c > 0).
RECURSIVE LastChars(_, _)
LastChars(t, c) ==
  LET l == t[Len(t)]
  IN IF c <= 0 THEN Empty
     ELSE IF l.len >= c
          THEN IF l.len = c THEN <<l>> ELSE <<CutTail(l, c)>>
          ELSE IF Len(t) = 1 THEN t
               ELSE LastChars(Sub(t, 1, Len(t) - 1), c - l.len - 1) \o <<l>>

\* "[...Memory truncated...]"
TruncationMark == Txt("[...Memory truncated...]", 24)

\* The line holds "## Action Taken at" (18 characters), whole or cut after it.
HoldsActionEntry(l) ==
  l.k \in {"h2", "h2cut", "topic"} /\ l.n = "Action Taken at" /\ l.len >= 18

\* memory_content.split("## Action Taken at")[0].rstrip(): the text before the
\* first line that holds the entry's heading.
BeforeActionEntry(t) ==
  LET S == {i \in 1..Len(t) : HoldsActionEntry(t[i])}
  IN IF S = {} THEN t ELSE RStrip(Sub(t, 1, Min(S) - 1) \o <<Blank>>)

\* Memory.update_with_action, lines 56-71: the document before the budget is
\* looked at, from the file as it is, the response and the time.
AppendedContent(file, action_result, now) ==
  LET new_action_entry == <<ActionHeading(now)>> \o action_result \o <<Blank>>
      memory_content == AfterSections(file, BeforeActionEntry(file), action_result)
  IN memory_content \o <<Blank>> \o new_action_entry

\* Memory.update_with_action: the memory file it leaves (every write succeeding).
UpdateWithAction(file, action_result, now) ==
  LET updated_content == AppendedContent(file, action_result, now)
      half_keep == max_tokens * 2
  IN IF TextLen(updated_content) > Budget
     THEN TakeChars(updated_content, half_keep)
            \o <<Blank, TruncationMark, Blank>>
            \o LastChars(updated_content, half_keep)
     ELSE updated_content

\* re.search(r'### <name>\s*\n([\s\S]*?)(?=###|$)', text).group(1).strip() for the
\* first "### " line with one of the names; Empty when there is none.
MarkedBlock(t, names) ==
  LET S == {i \in 1..(Len(t) - 1) : t[i].k = "h3" /\ t[i].n \in names}
      i == Min(S)
  IN IF S = {} THEN Empty
     ELSE Strip(Sub(t, i + 1, NextMinor(t, i) - 1) \o <<Blank>>)

\* The lines of a text that are not blank.
RECURSIVE NonBlank(_)
NonBlank(t) ==
  IF t = << >> THEN << >>
  ELSE IF Head(t) = Blank THEN NonBlank(Tail(t))
       ELSE <<Head(t)>> \o NonBlank(Tail(t))

\* Memory._create_action_summary: "**[<timestamp>]** " and, for each of progress,
\* outcome and next steps that the response holds, "Progress: <first sentence> ",
\* "Outcome: <first sentence> ", "Planned <n> next steps.".  A body of the model
\* starts with a line of prose, which is its first sentence; the summary is one
\* line, named by its timestamp, of kind "sum_" when it ends with a blank.
CreateActionSummary(action_result, timestamp) ==
  LET progress == MarkedBlock(action_result, {"Progress Assessment"})
      outcome == MarkedBlock(action_result, {"Outcome", "Outcome and Learning Report"})
      next_steps == MarkedBlock(action_result, {"Next Steps"})
  IN <<[k |-> IF IsEmpty(next_steps) THEN "sum_" ELSE "sum", n |-> "", ts |-> timestamp,
        len |-> 26
                + (IF IsEmpty(progress) THEN 0 ELSE 10 + progress[1].len + 1)
                + (IF IsEmpty(outcome) THEN 0 ELSE 9 + outcome[1].len + 1)
                + (IF IsEmpty(next_steps) THEN 0 ELSE 21)]>>

\* Memory._extract_web_search_info: "- <line>" for each line of the first
\* "### WEB_SEARCH" block that is not blank.  The topic made of a "## " line
\* still ends with that heading; the block holds no "###" line.
RECURSIVE AsTopics(_)
AsTopics(t) ==
  IF t = << >> THEN << >>
  ELSE <<[k |-> "topic", n |-> Head(t).n, len |-> 2 + Head(t).len, ts |-> Head(t).ts]>>
         \o AsTopics(Tail(t))

ExtractWebSearchInfo(action_result) ==
  AsTopics(NonBlank(MarkedBlock(action_result, {"WEB_SEARCH"})))

\* text.split("\n\n"): a Blank line that is neither the first nor the last line
\* of what is left is a separator.
RECURSIVE SplitParagraphs(_)
SplitParagraphs(t) ==
  LET S == {j \in 2..(Len(t) - 1) : t[j] = Blank}
      j == Min(S)
  IN IF S = {} THEN <<t>>
     ELSE <<Sub(t, 1, j - 1)>> \o SplitParagraphs(Sub(t, j + 1, Len(t)))

\* "\n\n".join(parts)
RECURSIVE JoinParagraphs(_)
JoinParagraphs(parts) ==
  IF Len(parts) = 1 THEN parts[1]
  ELSE parts[1] \o <<Blank>> \o JoinParagraphs(Tail(parts))

\* Memory._optimize_memory_size: new_memory += f"## {section}\n{body}\n\n" when
\* the body is not empty (new_memory ends with a newline, its last line Blank).
AddSection(new_memory, section, body) ==
  IF IsEmpty(body) THEN new_memory
  ELSE Sub(new_memory, 1, Len(new_memory) - 1) \o <<H2(section)>> \o body
         \o <<Blank, Blank>>

\* Memory._optimize_memory_size: the first n of the parts a text splits into.
FirstParagraphs(t, n) ==
  LET paragraphs == SplitParagraphs(t)
  IN IF Len(paragraphs) > n THEN JoinParagraphs(Sub(paragraphs, 1, n)) ELSE t

FirstLines(t, n) == IF Len(t) > n THEN Sub(t, 1, n) ELSE t

\* Memory._optimize_memory_size
OptimizeMemorySize(memory_content) ==
  LET sec(name) == ExtractSection(memory_content, name)
      m0 == <<H1("Autonomous Agent Memory"), Blank, Blank>>
      m1 == AddSection(m0, "Agent Identity and Goal", sec("Agent Identity and Goal"))
      m2 == AddSection(m1, "Progress Summary", sec("Progress Summary"))
      m3 == AddSection(m2, "Next Steps and Planning", sec("Next Steps and Planning"))
      m4 == AddSection(m3, "Recent Actions and Outcomes",
                       FirstParagraphs(sec("Recent Actions and Outcomes"), 3))
      m5 == AddSection(m4, "Insights and Learnings", sec("Insights and Learnings"))
      m6 == AddSection(m5, "Web Search Topics", FirstLines(sec("Web Search Topics"), 10))
  IN AddSection(m6, "Action Summaries", sec("Action Summaries"))

\* update_with_action_efficiently: the topics of the response that the section
\* does not hold yet (topic not in web_topics_section, tested against the
\* section as it was read, not against the topics added before it).
RECURSIVE NewTopics(_, _)
NewTopics(web_search_info, web_topics_section) ==
  IF web_search_info = << >> THEN << >>
  ELSE (IF \E j \in 1..Len(web_topics_section) :
             web_topics_section[j] = Head(web_search_info)
        THEN << >> ELSE <<Head(web_search_info)>>)
         \o NewTopics(Tail(web_search_info), web_topics_section)

\* update_with_action_efficiently, lines 117-133: the summaries section updated.
WithSummary(memory_content, action_summary) ==
  LET found == ExtractSection(memory_content, "Action Summaries")
      action_summaries_section ==
        IF IsEmpty(found) THEN <<Txt("Recent actions taken by the agent:", 34)>>
        ELSE found
      updated_summaries == action_summary \o <<Blank>> \o action_summaries_section
      summaries_list == SplitParagraphs(updated_summaries)
      max_summaries == 5
  IN ReplaceSection(memory_content, "Action Summaries",
       IF Len(summaries_list) > max_summaries + 1
       THEN JoinParagraphs(Sub(summaries_list, 1, max_summaries + 1))
       ELSE updated_summaries)

\* update_with_action_efficiently, lines 135-146: the topics section updated.
WithTopics(memory_content, web_search_info) ==
  LET web_topics_section == ExtractSection(memory_content, "Web Search Topics")
      new_topics == NewTopics(web_search_info, web_topics_section)
  IN IF web_search_info = << >> \/ new_topics = << >> THEN memory_content
     ELSE ReplaceSection(memory_content, "Web Search Topics",
                         web_topics_section \o new_topics)

\* update_with_action_efficiently, lines 97-146: the document before the budget
\* is looked at.
FoldedContent(file, action_result, now) ==
  WithTopics(WithSummary(AfterSections(file, file, action_result),
                         CreateActionSummary(action_result, now)),
             ExtractWebSearchInfo(action_result))

\* Memory.update_with_action_efficiently: the memory file it leaves (every write
\* succeeding).
UpdateWithActionEfficiently(file, action_result, now) ==
  LET memory_content == FoldedContent(file, action_result, now)
  IN IF TextLen(memory_content) > Budget
     THEN OptimizeMemorySize(memory_content)
     ELSE memory_content

\* Agent.initialize_memory: the initial memory document, for an agent whose name
\* takes 5 characters and whose goal takes 40.
InitialMemory ==
  << Blank,
     [k |-> "h1", n |-> "Autonomous Agent Memory", len |-> 33, ts |-> 0],
     Blank,
     H2("Agent Identity and Goal"),
     Txt("- Name:", 13), Txt("- Goal:", 48), Txt("- Created:", 30),
     Blank,
     H2("Progress Summary"),
     Txt("I am just beginning my journey.", 80),
     Blank,
     H2("Recent Actions and Outcomes"),
     Txt("No actions taken yet.", 21),
     Blank,
     H2("Next Steps and Planning"),
     Txt("1. Perform", 48), Txt("2. Develop", 41), Txt("3. Begin", 48),
     Blank,
     H2("Insights and Learnings"),
     Txt("None yet.", 63),
     Blank,
     H2("Web Search Topics"),
     Txt("Potential topics to search for on the web:", 42),
     Txt("1. Current", 46), Txt("2. Unexplained", 33),
     Txt("3. Recent", 41), Txt("4. Patterns", 33),
     Blank,
     H2("Action Summaries"),
     Txt("Recent actions taken by the agent.", 34),
     Blank >>

\* ------------------------------------------------------------ artifacts

\* title_slug = title.lower().replace(' ', '_')[:30]: the cut.
SlugLen == 30

\* len(content_text) > 20: what the heuristic extraction asks of a content.
MinContent == 20

\* The two artifact kinds.
Kinds == {"finding", "connection"}

Run(c, n) == [i \in 1..n |-> c]

\* The characters of the titles of the model: T1 and T2 differ in their 31st
\* character only, T3 holds capitals and a blank, F1 and F2 are the contents of
\* the "Finding: " and "Related: " lines (at most 50 characters, so the title
\* content_text.split('\n')[0][:50] the heuristic extraction makes is the content).
TitleChars(title) ==
  CASE title = "T1" -> Run("a", 30) \o <<"x">>
    [] title = "T2" -> Run("a", 30) \o <<"y">>
    [] title = "T3" -> <<"D", "a", "r", "k", " ", "M">>
    [] title = "F1" -> Run("f", 30)
    [] title = "F2" -> Run("g", 30)
    [] OTHER -> <<"t">>

\* str.lower() on a character of the titles.
Lower(c) == CASE c = "D" -> "d" [] c = "M" -> "m" [] OTHER -> c

\* Agent._record_finding, line 347: title.lower().replace(' ', '_')[:30]
Slug(title) ==
  LET chars == TitleChars(title)
      lowered == [i \in 1..Len(chars) |-> Lower(chars[i])]
      replaced == [i \in 1..Len(chars) |-> IF lowered[i] = " " THEN "_" ELSE lowered[i]]
  IN SubSeq(replaced, 1, IF Len(chars) < SlugLen THEN Len(chars) ELSE SlugLen)

\* Agent._record_finding, line 348: f"{timestamp}_{title_slug}.md"
Filename(timestamp, title) == <<timestamp, Slug(title)>>

\* The names of the files of a directory.
Names(dir) == {f.name : f \in dir}

\* open(filepath, 'w') and write: the file of that name now holds this title.
WriteFile(dir, name, title) ==
  {f \in dir : f.name # name} \union {[name |-> name, title |-> title]}

\* self.model.record_connection(title, content): the individual file of a
\* connection, named as a finding's is.
WriteConnectionFile(dir, name, title) == WriteFile(dir, name, title)

\* re.finditer(r'### <name>\s*\n(.*?)(?=###|$)', t, re.DOTALL) from line p on:
\* the stripped blocks, in order.
RECURSIVE MarkedBlocks(_, _, _)
MarkedBlocks(t, name, p) ==
  LET S == {i \in p..(Len(t) - 1) : t[i].k = "h3" /\ t[i].n = name}
      i == Min(S)
  IN IF S = {} THEN << >>
     ELSE <<Strip(Sub(t, i + 1, NextMinor(t, i) - 1) \o <<Blank>>)>>
            \o MarkedBlocks(t, name, NextMinor(t, i))

\* Agent._extract_search_queries: the lines of every "### WEB_SEARCH" block that
\* are not blank.
RECURSIVE QueryLines(_)
QueryLines(blocks) ==
  IF blocks = << >> THEN << >>
  ELSE NonBlank(Head(blocks)) \o QueryLines(Tail(blocks))

ExtractSearchQueries(response) == QueryLines(MarkedBlocks(response, "WEB_SEARCH", 1))

\* Agent._extract_findings and Agent._extract_connections, the loop over the
\* matches: a block of two lines or more gives its first line as the title and
\* the rest as the content; a block of one line gives nothing.
RECURSIVE TitledBlocks(_)
TitledBlocks(blocks) ==
  IF blocks = << >> THEN << >>
  ELSE (IF Len(Head(blocks)) >= 2
        THEN <<[title |-> Head(blocks)[1].n, content |-> Strip(Tail(Head(blocks)))]>>
        ELSE << >>)
         \o TitledBlocks(Tail(blocks))

ExtractFindings(response) == TitledBlocks(MarkedBlocks(response, "FINDING", 1))

ExtractConnections(response) == TitledBlocks(MarkedBlocks(response, "CONNECTION", 1))

\* A pattern of the heuristic pass that would take any substantial line of prose.
RECURSIVE AnyLineArtifacts(_, _)
AnyLineArtifacts(t, kind) ==
  IF t = << >> THEN << >>
  ELSE (IF Head(t).k \in {kind, "txt"} /\ Head(t).len > MinContent
        THEN <<[title |-> Head(t).n, content |-> <<Head(t)>>]>>
        ELSE << >>)
         \o AnyLineArtifacts(Tail(t), kind)

\* Agent._extract_implicit_findings and Agent._extract_implicit_connections, the
\* loop over the matches: a line of the kind the patterns pick up, when its
\* content is substantial, gives a title and a content.
RECURSIVE ImplicitArtifacts(_, _)
ImplicitArtifacts(t, kind) ==
  IF t = << >> THEN << >>
  ELSE (IF Head(t).k = kind /\ Head(t).len - 9 > MinContent
        THEN <<[title |-> Head(t).n, content |-> <<Txt(Head(t).n, Head(t).len - 9)>>]>>
        ELSE << >>)
         \o ImplicitArtifacts(Tail(t), kind)

ExtractImplicitFindings(response) == ImplicitArtifacts(response, "obs")

ExtractImplicitConnections(response) == ImplicitArtifacts(response, "rel")

\* A cycle whose heuristic pass would run whatever the tagged pass returned.
AlwaysHeuristic(tagged) == TRUE

\* Agent.run_action_cycle, lines 163 and 181: "if not explicitly_marked_findings"
\* and "if not connections", what lets the heuristic pass run.
NoneTagged(tagged) == tagged = << >>

\* Agent._check_for_discovery: re.search finds the declaration.
DiscoveryDeclared(response) ==
  \E i \in 1..(Len(response) - 1) :
     response[i].k = "h3" /\ response[i].n = "DISCOVERY_DECLARATION"

\* Agent._analyze_search_results: "\n\n#### Search Query: {query}\n{analysis}\n" for
\* each query, the analysis of the model taking one line.
RECURSIVE AnalysisText(_)
AnalysisText(queries) ==
  IF queries = << >> THEN << >>
  ELSE <<Blank, Blank, SearchHeading(Head(queries)), Txt("Analysis", 40)>>
         \o AnalysisText(Tail(queries))

\* A cycle that would go on with the response as the model gave it.
Unenriched(response, queries) == response

\* Agent.run_action_cycle, line 159:
\* response += f"\n\n### Web Search Results and Analysis\n{analysis_result}"
Enriched(response, queries) ==
  response \o <<Blank, H3("Web Search Results and Analysis")>>
    \o (IF queries = << >> THEN <<Blank>> ELSE AnalysisText(queries) \o <<Blank>>)

\* ----------------------------------------------------- the record operation

\* The order in which a recorder that rewrote the aggregate log first would work.
LogFirstSteps == <<"read", "log", "file">>

\* Agent._record_finding, lines 359-380, and Agent._record_connection, lines
\* 285-305: the effects of one call in program order: the individual file is
\* written, the aggregate log is read, the aggregate log is rewritten.
RecordSteps == <<"file", "read", "log">>

\* No record operation in progress.
IdleRecord ==
  [step |-> 0, kind |-> "finding", title |-> "", name |-> << >>,
   log_content |-> << >>, entry_ts |-> 0, pass |-> "", cycle |-> 0]

\* The call at its first step: the name of the file is made from the clock as
\* the call starts.  pass and cycle say which pass of which cycle made the call
\* ("direct" and 0 for a call from outside a cycle); they are not program state.
StartedRecord(kind, title, now, pass, cycle) ==
  [step |-> 1, kind |-> kind, title |-> title, name |-> Filename(now, title),
   log_content |-> << >>, entry_ts |-> 0, pass |-> pass, cycle |-> cycle]

\* f"\n### {timestamp_str} - {title}\n{content}\n": the entry of the aggregate log.
\* file, pass and cycle are not text of the entry: they name the file that the
\* call which wrote the entry wrote, and the pass and the cycle of that call.
NewEntry(r) ==
  [ts |-> r.entry_ts, title |-> r.title, file |-> r.name, pass |-> r.pass,
   cycle |-> r.cycle]

\* One step of the call in progress, at time now, on s = [rec, files, log].
StepRecord(s, now) ==
  LET r == s.rec
      step == RecordSteps[r.step]
      next == IF r.step = Len(RecordSteps) THEN IdleRecord
              ELSE [r EXCEPT !.step = @ + 1]
  IN CASE step = "file" ->
            [s EXCEPT !.rec = next,
                      !.files[r.kind] =
                         IF r.kind = "finding" THEN WriteFile(@, r.name, r.title)
                         ELSE WriteConnectionFile(@, r.name, r.title)]
       [] step = "read" ->
            [s EXCEPT !.rec = IF r.step = Len(RecordSteps) THEN IdleRecord
                               ELSE [r EXCEPT !.step = @ + 1,
                                              !.log_content = s.log[r.kind],
                                              !.entry_ts = now]]
       [] step = "log" ->
            [s EXCEPT !.rec = next,
                      !.log[r.kind] = Append(r.log_content, NewEntry(r))]

\* The call run to its end at time now, an I/O fault hitting the step named by
\* fault ("none": no fault): the except clause returns False and the effects of
\* the steps before the fault stay.
RECURSIVE RunRecord(_, _, _)
RunRecord(s, now, fault) ==
  IF s.rec.step = 0 THEN s
  ELSE IF RecordSteps[s.rec.step] = fault THEN [s EXCEPT !.rec = IdleRecord]
       ELSE RunRecord(StepRecord(s, now), now, fault)

\* Where an I/O fault may hit a call.
FaultPoints == {"none", "file", "read", "log"}

\* The calls of one pass of a cycle, one after the other: the i-th artifact is
\* recorded with the fault faults[i].
RECURSIVE RecordAll(_, _, _, _, _, _, _)
RecordAll(s, kind, artifacts, faults, now, pass, cycle) ==
  IF artifacts = << >> THEN s
  ELSE RecordAll(RunRecord([s EXCEPT !.rec = StartedRecord(kind, Head(artifacts).title,
                                                           now, pass, cycle)],
                           now, Head(faults)),
                 kind, Tail(artifacts), Tail(faults), now, pass, cycle)

\* ------------------------------------------------- the connections log

\* Agent._initialize_connections_log, line 125: the line that says the log is
\* empty.
NoConnectionsYet == Txt("No connections recorded yet.", 28)

\* A line of a body that ends with the words of that line.
QuotesNoConnectionsYet == Txt("The log said: No connections recorded yet.", 42)

\* "No connections recorded yet." in a line
HoldsNoConnectionsYet(l) == l \in {NoConnectionsYet, QuotesNoConnectionsYet}

\* Agent._initialize_connections_log, lines 115-127.
InitialConnectionsLog ==
  << H1("Connections Log"), Blank,
     H2("Overview"), Txt("This log contains connections", 120), Blank,
     Txt("**Goal**", 40), Blank, Txt("*Created*", 32), Blank,
     H2("Connections"), NoConnectionsYet, Blank, Blank >>

\* Agent._record_connection, line 289: "### {timestamp} - {title}"
ConnectionHeading(timestamp, title) ==
  [k |-> "h3", n |-> title, len |-> 26 + Len(TitleChars(title)), ts |-> timestamp]

\* log_content.replace("No connections recorded yet.", entry): every line that
\* holds the words has them replaced by the entry, whose first line goes on
\* the line where the words stood; after other text a "###" is no heading.
RECURSIVE ReplaceNoConnectionsYet(_, _)
ReplaceNoConnectionsYet(log_content, entry) ==
  IF log_content = << >> THEN << >>
  ELSE LET l == Head(log_content)
           rest == ReplaceNoConnectionsYet(Tail(log_content), entry)
       IN IF l = NoConnectionsYet THEN entry \o rest
          ELSE IF l = QuotesNoConnectionsYet
               THEN <<[k |-> "txt", n |-> "The log said: ### " \o entry[1].n,
                       len |-> 14 + entry[1].len, ts |-> entry[1].ts]>>
                      \o Tail(entry) \o rest
               ELSE <<l>> \o rest

\* Agent._record_connection, lines 288-301: the log with the entry.
WithConnection(log_content, timestamp, title, content) ==
  LET new_entry == <<Blank, ConnectionHeading(timestamp, title)>> \o content \o <<Blank>>
  IN IF \E i \in 1..Len(log_content) : HoldsNoConnectionsYet(log_content[i])
     THEN ReplaceNoConnectionsYet(log_content, Strip(new_entry))
     ELSE RStrip(log_content) \o Tail(new_entry)

\* --------------------------------------------------------------- bounds

\* How many action cycles one behaviour runs.
MaxCycles == 2

\* How many record calls one behaviour of the recorder specification makes.
MaxRecords == 2

\* How far the clock of the recorder specification runs, in seconds.
MaxClock == 1

\* ------------------------------------------------------------ catalogues

\* What ModelInterface.query returns when the API call fails.
ErrorResponse == <<Txt("Error: Unable", 70)>>

\* Responses of the model: the error string; assessed progress and next steps;
\* a response that quotes the heading of a memory entry; a long list of
\* learnings; a search request; tagged artifacts next to lines the heuristic
\* patterns match; such lines alone; a discovery declaration.
Responses ==
  { ErrorResponse,
    <<H3("Progress Assessment"), Txt("a", 30), Blank, H3("Next Steps"), Txt("b", 60)>>,
    <<H3("Progress Assessment"), Txt("a", 30), ActionHeading(0), Txt("b", 60)>>,
    <<H3("Learnings"), Txt("c", 500)>>,
    <<H3("WEB_SEARCH"), Txt("q1", 20), Blank, H3("Progress Assessment"), Txt("a", 30)>>,
    <<H3("FINDING"), Txt("T1", 31), Txt("b", 60), Blank, Obs("F1", 30), Blank,
      H3("CONNECTION"), Txt("T3", 6), Txt("b", 60), Blank, Rel("F2", 30)>>,
    <<Txt("a", 30), Blank, Obs("F1", 30), Blank, Rel("F2", 30)>>,
    <<H3("DISCOVERY_DECLARATION"), Txt("a", 30)>> }

\* Titles handed to the recorders: three for a finding, two of which share
\* their first 30 characters, and one for a connection.
Titles(kind) == IF kind = "finding" THEN {"T1", "T2", "T3"} ELSE {"T3"}

\* ------------------------------------------------------------- the state

\* ------------------------------------------------------- fine-tuning

\* How many fine-tuning jobs one behaviour creates.
MaxJobs == 2

\* Python's None, for a job id or a model id.
None == 0

\* config["model_id"], the model the agent starts with.
base_model_id == 1

\* The ids openai.fine_tuning.jobs.create gives, in the order of creation.
JobIds == 1..MaxJobs

\* job.fine_tuned_model, the model a job produces when it succeeds.
FineTunedModel(job_id) == base_model_id + job_id

\* The threads: the scheduler's, which calls run_fine_tuning, and the poller
\* that run_fine_tuning starts for each job it creates (line 212).
MainThread == 0

Threads == {MainThread} \union JobIds

\* Line 231: the statuses that end a job.
TerminalStatuses == {"succeeded", "failed", "cancelled"}

\* ModelInterface.load_model_state, lines 70-76: the default state.
DefaultModelState ==
  [base_model_id |-> base_model_id,
   fine_tuned_model_id |-> None,
   active_fine_tuning_job |-> None,
   fine_tuning_history |-> << >>]

\* A thread: where it is, the job id its status check read at line 245 and the
\* terminal status its last status check returned ("none" when it returned
\* another status or None).
IdleThread == [pc |-> "idle", job_id |-> None, status |-> "none"]

UnstartedThread == [pc |-> "unstarted", job_id |-> None, status |-> "none"]

\* Lines 199-206: the new job becomes the active one and enters the history.
WithNewJob(state, job_id) ==
  [state EXCEPT
     !.active_fine_tuning_job = job_id,
     !.fine_tuning_history =
        Append(@, [job_id |-> job_id,
                   starting_model |-> IF state.fine_tuned_model_id # None
                                      THEN state.fine_tuned_model_id
                                      ELSE base_model_id,
                   status |-> "created"])]

\* Lines 254-258: the status is written to the first entry of the history that
\* has the job id.
WithStatus(history, job_id, status) ==
  LET hits == {i \in 1..Len(history) : history[i].job_id = job_id}
  IN IF hits = {} THEN history
     ELSE LET first == CHOOSE i \in hits : \A j \in hits : i <= j
          IN [history EXCEPT ![first].status = status]

\* A status check that would record the success and go on using the old model.
JobSucceededKeepsModel(s, fine_tuned_model) ==
  [model_state |-> [s.model_state EXCEPT !.fine_tuned_model_id = fine_tuned_model,
                                         !.active_fine_tuning_job = None],
   model_id |-> s.model_id]

\* Lines 261-270: the job succeeded; the model it produced is stored and used.
JobSucceeded(s, fine_tuned_model) ==
  [model_state |-> [s.model_state EXCEPT !.fine_tuned_model_id = fine_tuned_model,
                                         !.active_fine_tuning_job = None],
   model_id |-> fine_tuned_model]

\* A status check that would take a job that ended badly for one still running.
JobEndedKeepsJob(s) == s

\* Lines 273-275: the job failed or was cancelled; the active job is cleared.
JobEnded(s) ==
  [model_state |-> [s.model_state EXCEPT !.active_fine_tuning_job = None],
   model_id |-> s.model_id]

\* ModelInterface._check_fine_tuning_job_status, lines 251-277, for the job id
\* read at line 245 and the status openai.fine_tuning.jobs.retrieve gave.
CheckedStatus(state, id, job_id, status) ==
  LET s == [model_state |->
              [state EXCEPT !.fine_tuning_history = WithStatus(@, job_id, status)],
            model_id |-> id]
  IN IF status = "succeeded" THEN JobSucceeded(s, FineTunedModel(job_id))
     ELSE IF status \in {"failed", "cancelled"} THEN JobEnded(s)
     ELSE s

\* ----------------------------------------------------------- polling

\* ModelInterface._poll_fine_tuning_job, line 219: its defaults, which line 212
\* leaves in place.
initial_delay == 60

max_retries == 20

\* Line 235: the cap of the delay, in seconds.
MaxDelay == 600

\* retry_delay is a float; it is kept here in 32nds of a second, in which every
\* value it takes (60 * 1.5^k below the cap, then the cap) is a whole number.
Ticks == 32

\* A polling that would back off without a cap.
UncappedBackoff(retry_delay) == (retry_delay * 3) \div 2

\* Line 235: retry_delay = min(retry_delay * backoff_factor, 600), with
\* backoff_factor = 1.5.
Backoff(retry_delay) == Min({(retry_delay * 3) \div 2, MaxDelay * Ticks})

\* What a status check returns to the poller: a status of the job, or None
\* (no active job, or the retrieval failed: lines 246-247, 280-282).
CheckResults == {"none", "running"} \union TerminalStatuses

\* A poller: where it is, its counters, the status checks it made, the last
\* sleep it took and whether a status check of its returned a terminal status.
StartedPoll ==
  [pc |-> "start", retry_count |-> 0, retry_delay |-> initial_delay * Ticks,
   checks |-> 0, slept |-> 0, ended |-> FALSE]

\* Line 221: time.sleep(initial_delay).
PollStart(p) == [p EXCEPT !.pc = "loop", !.slept = initial_delay * Ticks]

\* Line 226: the test of the loop.
PollRuns(p) == p.retry_count < max_retries

\* Lines 228-237: one turn of the loop, the status check returning status.
PollTurn(p, status) ==
  IF status \in TerminalStatuses
  THEN [p EXCEPT !.pc = "done", !.checks = @ + 1, !.ended = TRUE]
  ELSE LET delay == Backoff(p.retry_delay)
       IN [p EXCEPT !.checks = @ + 1, !.retry_delay = delay,
                    !.retry_count = @ + 1, !.slept = delay]

\* Lines 238-241: one turn of the loop, the status check raising.
PollTurnRaises(p) ==
  [p EXCEPT !.checks = @ + 1, !.retry_count = @ + 1, !.slept = p.retry_delay]

\* --------------------------------------------------------- discovery

\* How many calls of record_discovery one behaviour makes from outside a cycle.
MaxDeclared == 3

\* Agent.record_discovery, lines 419-425: the entry, with its date.
FormattedDiscovery(discovery_content, now) == [ts |-> now, content |-> discovery_content]

\* A recording that would add to the file, as the recorders of findings do.
AppendDiscovery(file, entry) == Append(file, entry)

\* Lines 428-429: open(findings_file, "w") and the write; data/findings.txt is
\* the sequence of the entries it holds.
WriteDiscovery(file, entry) == <<entry>>

\* Agent.record_discovery(discovery_content), the write succeeding.
RecordDiscovery(file, discovery_content, now) ==
  WriteDiscovery(file, FormattedDiscovery(discovery_content, now))

\* Declarations: one line, two lines, nothing.
DiscoveryContents ==
  { <<Txt("law", 40)>>, <<Txt("law", 50), Txt("proof", 60)>>, Empty }

VARIABLES
  memory_file,  \* the memory document (Memory.memory_file)
  clock,        \* datetime.now(), in seconds
  files,        \* per kind, the individual files of data/findings, data/connections
  log,          \* per kind, the entries of the aggregate log
  discovery,    \* data/findings.txt: empty, or the one discovery it holds
  rec,          \* the record call in progress
  called,       \* per kind, the titles of the record calls made from outside a cycle
  faulted,      \* whether an I/O fault has hit a record call
  seen,         \* what the dashboard last read
  pc,           \* the step of run_action_cycle (an index of CycleSteps), 0 between cycles
  response,     \* the response of the cycle
  raised,       \* whether run_action_cycle raised to its caller
  returned,     \* what run_action_cycle last returned
  cycles,       \* how many cycles returned
  folded,       \* whether the memory fold of the cycle ran
  passes,       \* per kind, the passes of the cycle
  fold,         \* the last direct fold
  rs,           \* one double application of _replace_section
  model_state,  \* ModelInterface.model_state
  model_id,     \* ModelInterface.model_id, the model in use
  jobs,         \* the fine-tuning jobs of the service, each with its status
  threads,      \* the scheduler's thread and the pollers of the jobs
  poll,         \* one run of _poll_fine_tuning_job
  declared,     \* the calls of record_discovery made from outside a cycle
  xs,           \* one application of _extract_section
  ws,           \* the calls of Memory.write and the Memory.read after them
  connections_log \* data/connections/connections_log.md and the calls of _record_connection

vars ==
  <<memory_file, clock, files, log, discovery, rec, called, faulted, seen, pc,
    response, raised, returned, cycles, folded, passes, fold, rs,
    model_state, model_id, jobs, threads, poll, declared, xs, ws,
    connections_log>>

memoryVars == <<memory_file, fold>>
artifactVars == <<files, log, rec, called, faulted, seen>>
cycleVars == <<pc, response, raised, returned, cycles, folded, passes, discovery>>
tuneVars == <<model_state, model_id, jobs, threads>>
callVars == <<declared, xs, ws, connections_log>>
auxVars == <<tuneVars, poll, callVars>>

\* ModelInterface.__init__ with no state file: the default state, no job, no
\* thread but the scheduler's; a poller about to start.
\* No write yet: n counts the writes, stage is "written" after a write and
\* "read" after the read that follows it, ok is what the write returned, before
\* what the file held when it was called, read what the read returned.
NoWrite == [n |-> 0, stage |-> "idle", ok |-> TRUE, before |-> Empty, read |-> Empty]

\* Agent.__init__, lines 38-39: the connections log as it is made, no call yet.
NoConnections ==
  [log_content |-> InitialConnectionsLog, returned |-> FALSE, calls |-> << >>]

InitAux ==
  /\ model_state = DefaultModelState
  /\ model_id = base_model_id
  /\ jobs = [j \in JobIds |-> "absent"]
  /\ threads = [t \in Threads |-> IF t = MainThread THEN IdleThread ELSE UnstartedThread]
  /\ poll = StartedPoll
  /\ declared = << >>
  /\ ws = NoWrite
  /\ connections_log = NoConnections

NoPasses == [k \in Kinds |-> {}]

NoFold == [n |-> 0, op |-> "none", response |-> Empty, compacted |-> FALSE, raw |-> TRUE]

NothingSeen == [kind |-> "finding", entries |-> << >>, names |-> {}, listed |-> FALSE]

NoExtract == [stage |-> 0, doc |-> Empty, name |-> "", body |-> Empty, out |-> Empty]

NoReplace ==
  [stage |-> 0, doc |-> Empty, name |-> "", body |-> Empty, once |-> Empty, twice |-> Empty]

\* Agent.__init__: the memory document as initialize_memory writes it, the logs
\* as _initialize_findings_log and _initialize_connections_log write them.
Init ==
  /\ memory_file = InitialMemory
  /\ clock = 0
  /\ files = [k \in Kinds |-> {}]
  /\ log = [k \in Kinds |-> << >>]
  /\ discovery = << >>
  /\ rec = IdleRecord
  /\ called = [k \in Kinds |-> << >>]
  /\ faulted = FALSE
  /\ seen = NothingSeen
  /\ pc = 0
  /\ response = Empty
  /\ raised = FALSE
  /\ returned = Empty
  /\ cycles = 0
  /\ folded = FALSE
  /\ passes = NoPasses
  /\ fold = NoFold
  /\ rs = NoReplace
  /\ InitAux
  /\ xs = NoExtract

\* ------------------------------------------------------- the action cycle

\* The order of a cycle that would fold the memory before it records.
FoldFirstSteps == <<"search", "fold", "findings", "connections", "discovery", "return">>

\* Agent.run_action_cycle, lines 153-204, the steps of one cycle in program
\* order: the web searches of the response, its findings, its connections, its
\* discovery, the memory fold, the return.
CycleSteps == <<"search", "findings", "connections", "discovery", "fold", "return">>

\* The cycle is at the step of that name.
AtStep(name) == pc > 0 /\ CycleSteps[pc] = name

\* The artifact store, as the record operation takes it.
Store == [rec |-> rec, files |-> files, log |-> log]

\* Agent.run_action_cycle, lines 141-151: the memory is read into the prompt and
\* the model is queried; a failed query gives the error string.
StartCycle(r) ==
  /\ pc = 0 /\ ~raised /\ cycles < MaxCycles
  /\ pc' = 1
  /\ response' = r
  /\ clock' = clock + 1
  /\ folded' = FALSE
  /\ passes' = NoPasses
  /\ UNCHANGED <<memoryVars, artifactVars, discovery, raised, returned, cycles, rs, auxVars>>

\* Agent.run_action_cycle, lines 154-159, every search and analysis returning.
WebSearch ==
  /\ AtStep("search")
  /\ LET search_queries == ExtractSearchQueries(response)
     IN response' = IF search_queries = << >> THEN response
                    ELSE Enriched(response, search_queries)
  /\ pc' = pc + 1
  /\ UNCHANGED <<memoryVars, artifactVars, clock, discovery, raised, returned, cycles,
                 folded, passes, rs, auxVars>>

\* Agent._perform_web_searches, line 232, and Agent._analyze_search_results, line
\* 252: self.model.web_search or self.model.analyze_search_results raises;
\* nothing between the call and the caller of run_action_cycle catches it.
WebSearchRaises ==
  /\ AtStep("search")
  /\ ExtractSearchQueries(response) # << >>
  /\ raised' = TRUE
  /\ pc' = 0
  /\ UNCHANGED <<memoryVars, artifactVars, clock, discovery, response, returned, cycles,
                 folded, passes, rs, auxVars>>

\* Agent.run_action_cycle, lines 162-172: the tagged findings, or, when there is
\* none, the findings of the heuristic pass, each handed to _record_finding.
RecordFindings ==
  /\ AtStep("findings")
  /\ LET explicitly_marked_findings == ExtractFindings(response)
         heuristic == NoneTagged(explicitly_marked_findings)
         findings == IF heuristic THEN ExtractImplicitFindings(response)
                     ELSE explicitly_marked_findings
     IN /\ \E faults \in [1..Len(findings) -> FaultPoints] :
             LET s == RecordAll(Store, "finding", findings, faults, clock,
                                IF heuristic THEN "heuristic" ELSE "tagged", cycles + 1)
             IN /\ files' = s.files
                /\ log' = s.log
                /\ faulted' = (faulted \/ \E i \in DOMAIN faults : faults[i] # "none")
        /\ passes' = [passes EXCEPT !["finding"] =
                        (IF explicitly_marked_findings # << >> THEN {"tagged"} ELSE {})
                          \union (IF heuristic THEN {"heuristic"} ELSE {})]
  /\ pc' = pc + 1
  /\ UNCHANGED <<memoryVars, rec, called, seen, clock, discovery, response, raised,
                 returned, cycles, folded, rs, auxVars>>

\* Agent.run_action_cycle, lines 175-185: the tagged connections are recorded,
\* and when there is none the connections of the heuristic pass are.
RecordConnections ==
  /\ AtStep("connections")
  /\ LET connections == ExtractConnections(response)
         heuristic == NoneTagged(connections)
         implicit_connections ==
           IF heuristic THEN ExtractImplicitConnections(response) ELSE << >>
     IN /\ \E faults \in [1..Len(connections) -> FaultPoints],
             more \in [1..Len(implicit_connections) -> FaultPoints] :
             LET s == RecordAll(RecordAll(Store, "connection", connections, faults,
                                          clock, "tagged", cycles + 1),
                                "connection", implicit_connections, more, clock,
                                "heuristic", cycles + 1)
             IN /\ files' = s.files
                /\ log' = s.log
                /\ faulted' = (\/ faulted
                               \/ \E i \in DOMAIN faults : faults[i] # "none"
                               \/ \E i \in DOMAIN more : more[i] # "none")
        /\ passes' = [passes EXCEPT !["connection"] =
                        (IF connections # << >> THEN {"tagged"} ELSE {})
                          \union (IF heuristic THEN {"heuristic"} ELSE {})]
  /\ pc' = pc + 1
  /\ UNCHANGED <<memoryVars, rec, called, seen, clock, discovery, response, raised,
                 returned, cycles, folded, rs, auxVars>>

\* Agent._check_for_discovery and Agent.record_discovery: a declared discovery
\* overwrites data/findings.txt.
CheckForDiscovery ==
  /\ AtStep("discovery")
  /\ discovery' =
       IF DiscoveryDeclared(response)
       THEN RecordDiscovery(discovery, MarkedBlock(response, {"DISCOVERY_DECLARATION"}),
                            clock)
       ELSE discovery
  /\ pc' = pc + 1
  /\ UNCHANGED <<memoryVars, artifactVars, clock, response, raised, returned, cycles,
                 folded, passes, rs, auxVars>>

\* A record_discovery without its except clause: the failed write would leave
\* run_action_cycle.
DiscoveryFaultPropagates ==
  /\ AtStep("discovery")
  /\ DiscoveryDeclared(response)
  /\ raised' = TRUE
  /\ pc' = 0
  /\ UNCHANGED <<memoryVars, artifactVars, clock, discovery, response, returned,
                 cycles, folded, passes, rs, auxVars>>

\* Agent.record_discovery, lines 433-435: the write fails, False is returned.
DiscoveryFault ==
  /\ AtStep("discovery")
  /\ DiscoveryDeclared(response)
  /\ pc' = pc + 1
  /\ UNCHANGED <<memoryVars, artifactVars, clock, discovery, response, raised, returned,
                 cycles, folded, passes, rs, auxVars>>

\* Agent.run_action_cycle, line 191: the response is folded into the memory.
FoldMemory ==
  /\ AtStep("fold")
  /\ memory_file' = UpdateWithActionEfficiently(memory_file, response, clock)
  /\ folded' = TRUE
  /\ pc' = pc + 1
  /\ UNCHANGED <<fold, artifactVars, clock, discovery, response, raised, returned,
                 cycles, passes, rs, auxVars>>

\* Memory.write, lines 46-48, under update_with_action_efficiently: the writes of
\* the fold fail, False is returned and the memory file stays as it was.
FoldFault ==
  /\ AtStep("fold")
  /\ folded' = TRUE
  /\ pc' = pc + 1
  /\ UNCHANGED <<memoryVars, artifactVars, clock, discovery, response, raised,
                 returned, cycles, passes, rs, auxVars>>

\* Agent.run_action_cycle, line 204.
ReturnResponse ==
  /\ AtStep("return")
  /\ returned' = response
  /\ cycles' = cycles + 1
  /\ pc' = 0
  /\ UNCHANGED <<memoryVars, artifactVars, clock, discovery, response, raised, folded,
                 passes, rs, auxVars>>

Next ==
  \/ \E r \in Responses : StartCycle(r)
  \/ WebSearch
  \/ WebSearchRaises
  \/ RecordFindings
  \/ RecordConnections
  \/ CheckForDiscovery
  \/ DiscoveryFault
  \/ FoldMemory
  \/ FoldFault
  \/ ReturnResponse

Spec == Init /\ [][Next]_vars

\* ------------------------------------------------------ the memory alone

\* Memory.update_with_action(r), every write succeeding.
UpdateWithActionCall(r) ==
  /\ fold.n < MaxFolds
  /\ clock' = clock + 1
  /\ memory_file' = UpdateWithAction(memory_file, r, clock')
  /\ fold' = [n |-> fold.n + 1, op |-> "update_with_action", response |-> r,
              compacted |-> TextLen(AppendedContent(memory_file, r, clock')) > Budget,
              raw |-> fold.raw]
  /\ UNCHANGED <<artifactVars, cycleVars, rs, auxVars>>

\* Memory.update_with_action_efficiently(r), every write succeeding.
UpdateEfficientlyCall(r) ==
  /\ fold.n < MaxFolds
  /\ clock' = clock + 1
  /\ memory_file' = UpdateWithActionEfficiently(memory_file, r, clock')
  /\ fold' = [n |-> fold.n + 1, op |-> "update_with_action_efficiently", response |-> r,
              compacted |-> TextLen(FoldedContent(memory_file, r, clock')) > Budget,
              raw |-> FALSE]
  /\ UNCHANGED <<artifactVars, cycleVars, rs, auxVars>>

NextMemory ==
  \/ \E r \in Responses : UpdateWithActionCall(r)
  \/ \E r \in Responses : UpdateEfficientlyCall(r)

SpecMemory == Init /\ [][NextMemory]_vars

\* ------------------------------------------------- _replace_section alone

\* Documents: the initial one; the empty one; one without its last section; the
\* initial one after a fold.
ReplaceDocs ==
  { InitialMemory,
    Empty,
    Sub(InitialMemory, 1, 28),
    UpdateWithAction(InitialMemory, ErrorResponse, 1) }

\* Section names: two of the document, and one it does not hold.
ReplaceNames == {"Progress Summary", "Action Summaries", "Custom"}

\* Bodies: one line; nothing; paragraphs; blank lines around a line; a body that
\* holds a "## " line.
ReplaceBodies ==
  { <<Txt("a", 30)>>,
    Empty,
    <<Txt("a", 30), Blank, Txt("b", 60)>>,
    <<Blank, Txt("a", 30), Blank>>,
    <<Txt("a", 30), H2("Custom"), Txt("b", 60)>> }

InitReplace ==
  /\ memory_file = InitialMemory
  /\ clock = 0
  /\ files = [k \in Kinds |-> {}]
  /\ log = [k \in Kinds |-> << >>]
  /\ discovery = << >>
  /\ rec = IdleRecord
  /\ called = [k \in Kinds |-> << >>]
  /\ faulted = FALSE
  /\ seen = NothingSeen
  /\ pc = 0
  /\ response = Empty
  /\ raised = FALSE
  /\ returned = Empty
  /\ cycles = 0
  /\ folded = FALSE
  /\ passes = NoPasses
  /\ fold = NoFold
  /\ rs \in {[NoReplace EXCEPT !.doc = d, !.name = n, !.body = b] :
               d \in ReplaceDocs, n \in ReplaceNames, b \in ReplaceBodies}
  /\ InitAux
  /\ xs = NoExtract

\* _replace_section(doc, name, body)
ReplaceOnce ==
  /\ rs.stage = 0
  /\ rs' = [rs EXCEPT !.stage = 1, !.once = ReplaceSection(rs.doc, rs.name, rs.body)]
  /\ UNCHANGED <<memoryVars, artifactVars, cycleVars, clock, auxVars>>

\* _replace_section(_replace_section(doc, name, body), name, body)
ReplaceTwice ==
  /\ rs.stage = 1
  /\ rs' = [rs EXCEPT !.stage = 2, !.twice = ReplaceSection(rs.once, rs.name, rs.body)]
  /\ UNCHANGED <<memoryVars, artifactVars, cycleVars, clock, auxVars>>

NextReplace == ReplaceOnce \/ ReplaceTwice

SpecReplace == InitReplace /\ [][NextReplace]_vars

\* ---------------------------------------------------- the recorders alone

\* Agent._record_finding or Agent._record_connection is called: lines 339-349,
\* the name of the file is made.
StartRecord(kind, title) ==
  /\ rec.step = 0
  /\ Len(called["finding"]) + Len(called["connection"]) < MaxRecords
  /\ rec' = StartedRecord(kind, title, clock, "direct", 0)
  /\ called' = [called EXCEPT ![kind] = Append(@, title)]
  /\ UNCHANGED <<memoryVars, cycleVars, clock, files, log, faulted, seen, rs, auxVars>>

\* The call in progress takes its next step.
RecordStep ==
  /\ rec.step # 0
  /\ LET s == StepRecord(Store, clock)
     IN /\ rec' = s.rec
        /\ files' = s.files
        /\ log' = s.log
  /\ UNCHANGED <<memoryVars, cycleVars, clock, called, faulted, seen, rs, auxVars>>

\* Lines 387-389 and 312-314: an I/O fault at the next step of the call in
\* progress; the except clause returns False.
RecordFault ==
  /\ rec.step # 0
  /\ rec' = IdleRecord
  /\ faulted' = TRUE
  /\ UNCHANGED <<memoryVars, cycleVars, clock, called, files, log, seen, rs, auxVars>>

\* A second passes.
Tick ==
  /\ clock < MaxClock
  /\ clock' = clock + 1
  /\ UNCHANGED <<memoryVars, cycleVars, artifactVars, rs, auxVars>>

\* WebServer get_findings_log (and its like for connections): the dashboard
\* reads the aggregate log.
GetLog(kind) ==
  /\ seen' = [kind |-> kind, entries |-> log[kind], names |-> {}, listed |-> FALSE]
  /\ UNCHANGED <<memoryVars, cycleVars, clock, files, log, rec, called, faulted, rs, auxVars>>

\* WebServer get_all_findings (and its like for connections): the dashboard
\* lists the individual files, after the log it read.
GetAll ==
  /\ seen' = [seen EXCEPT !.names = Names(files[seen.kind]), !.listed = TRUE]
  /\ UNCHANGED <<memoryVars, cycleVars, clock, files, log, rec, called, faulted, rs, auxVars>>

NextRecord ==
  \/ \E kind \in Kinds : \E title \in Titles(kind) : StartRecord(kind, title)
  \/ RecordStep
  \/ RecordFault
  \/ Tick
  \/ \E kind \in Kinds : GetLog(kind)
  \/ GetAll

SpecRecord == Init /\ [][NextRecord]_vars

\* ------------------------------------------------------- fine-tuning

\* The threads of the fine-tuning interleave where a call blocks: the calls of
\* the OpenAI API and the sleeps of the poller.  What a thread does between two
\* such calls is one step.

\* The next id openai.fine_tuning.jobs.create gives.
NextJob == CHOOSE j \in JobIds : jobs[j] = "absent" /\ \A i \in JobIds : i < j => jobs[i] # "absent"

\* The thread after a status check that returned status.
AfterCheck(t, job_id, status) ==
  IF status \in TerminalStatuses
  THEN [pc |-> IF t = MainThread THEN "idle" ELSE "done", job_id |-> job_id,
        status |-> status]
  ELSE [pc |-> IF t = MainThread THEN "idle" ELSE "sleep", job_id |-> None,
        status |-> "none"]

\* ModelInterface.run_fine_tuning, lines 159-172, fine-tuning enabled and the
\* data enough: an active job has its status checked (lines 164-167, then line
\* 245 of the check), otherwise the data is uploaded and a job asked for
\* (lines 177-195).
RunFineTuning ==
  /\ threads[MainThread].pc = "idle"
  /\ IF model_state.active_fine_tuning_job # None
     THEN threads' = [threads EXCEPT ![MainThread] =
                        [pc |-> "retrieve", job_id |-> model_state.active_fine_tuning_job,
                         status |-> "none"]]
     ELSE threads' = [threads EXCEPT ![MainThread] =
                        [pc |-> "create", job_id |-> None, status |-> "none"]]
  /\ UNCHANGED <<model_state, model_id, jobs>>
  /\ UNCHANGED <<memoryVars, artifactVars, cycleVars, clock, rs, poll, callVars>>

\* Lines 192-196: openai.fine_tuning.jobs.create returns the new job (while
\* the ids last).
CreateJob ==
  /\ threads[MainThread].pc = "create"
  /\ \E j \in JobIds : jobs[j] = "absent"
  /\ jobs' = [jobs EXCEPT ![NextJob] = "running"]
  /\ threads' = [threads EXCEPT ![MainThread] =
                   [pc |-> "set", job_id |-> NextJob, status |-> "none"]]
  /\ UNCHANGED <<model_state, model_id>>
  /\ UNCHANGED <<memoryVars, artifactVars, cycleVars, clock, rs, poll, callVars>>

\* Lines 215-217: the upload or the creation raises; False is returned.
CreateFails ==
  /\ threads[MainThread].pc = "create"
  /\ threads' = [threads EXCEPT ![MainThread] = IdleThread]
  /\ UNCHANGED <<model_state, model_id, jobs>>
  /\ UNCHANGED <<memoryVars, artifactVars, cycleVars, clock, rs, poll, callVars>>

\* Lines 199-214: the job becomes the active one and its poller is started.
SetJob ==
  /\ threads[MainThread].pc = "set"
  /\ LET job_id == threads[MainThread].job_id
     IN /\ model_state' = WithNewJob(model_state, job_id)
        /\ threads' = [threads EXCEPT ![MainThread] = IdleThread,
                                      ![job_id] = [UnstartedThread EXCEPT !.pc = "sleep"]]
  /\ UNCHANGED <<model_id, jobs>>
  /\ UNCHANGED <<memoryVars, artifactVars, cycleVars, clock, rs, poll, callVars>>

\* ModelInterface._poll_fine_tuning_job, line 228, and lines 245-250 of the
\* check: the poller wakes, reads the active job and asks for its status; with
\* no active job the check returns None and the poller sleeps again.
PollCheck(t) ==
  /\ t \in JobIds
  /\ threads[t].pc = "sleep"
  /\ threads' = [threads EXCEPT ![t] =
                   IF model_state.active_fine_tuning_job = None
                   THEN [pc |-> "sleep", job_id |-> None, status |-> "none"]
                   ELSE [pc |-> "retrieve", job_id |-> model_state.active_fine_tuning_job,
                         status |-> "none"]]
  /\ UNCHANGED <<model_state, model_id, jobs>>
  /\ UNCHANGED <<memoryVars, artifactVars, cycleVars, clock, rs, poll, callVars>>

\* ModelInterface._check_fine_tuning_job_status, lines 250-278: the status of
\* the job whose id the thread read comes back and is acted on.
Retrieve(t) ==
  /\ threads[t].pc = "retrieve"
  /\ LET job_id == threads[t].job_id
         status == jobs[job_id]
         s == CheckedStatus(model_state, model_id, job_id, status)
     IN /\ model_state' = s.model_state
        /\ model_id' = s.model_id
        /\ threads' = [threads EXCEPT ![t] = AfterCheck(t, job_id, status)]
  /\ UNCHANGED jobs
  /\ UNCHANGED <<memoryVars, artifactVars, cycleVars, clock, rs, poll, callVars>>

\* Lines 280-282: the retrieval raises; the check returns None.
RetrieveFails(t) ==
  /\ threads[t].pc = "retrieve"
  /\ threads' = [threads EXCEPT ![t] = AfterCheck(t, threads[t].job_id, "none")]
  /\ UNCHANGED <<model_state, model_id, jobs>>
  /\ UNCHANGED <<memoryVars, artifactVars, cycleVars, clock, rs, poll, callVars>>

\* Line 226: the poller has used its retries and ends (the count is kept by
\* the polling specification below, not here).
PollGivesUp(t) ==
  /\ t \in JobIds
  /\ threads[t].pc = "sleep"
  /\ threads' = [threads EXCEPT ![t].pc = "done"]
  /\ UNCHANGED <<model_state, model_id, jobs>>
  /\ UNCHANGED <<memoryVars, artifactVars, cycleVars, clock, rs, poll, callVars>>

\* The service ends a job.
JobEnds(j, status) ==
  /\ jobs[j] = "running"
  /\ jobs' = [jobs EXCEPT ![j] = status]
  /\ UNCHANGED <<model_state, model_id, threads>>
  /\ UNCHANGED <<memoryVars, artifactVars, cycleVars, clock, rs, poll, callVars>>

NextTune ==
  \/ RunFineTuning
  \/ CreateJob
  \/ CreateFails
  \/ SetJob
  \/ \E t \in Threads : PollCheck(t)
  \/ \E t \in Threads : Retrieve(t)
  \/ \E t \in Threads : RetrieveFails(t)
  \/ \E t \in Threads : PollGivesUp(t)
  \/ \E j \in JobIds : \E status \in TerminalStatuses : JobEnds(j, status)

SpecTune == Init /\ [][NextTune]_vars

\* ------------------------------------------------------------ polling

\* Line 221: the poller sleeps before its first status check.
PollSleepsFirst ==
  /\ poll.pc = "start"
  /\ poll' = PollStart(poll)
  /\ UNCHANGED <<memoryVars, artifactVars, cycleVars, clock, rs, tuneVars, callVars>>

\* Lines 226-237: a status check that returns.
PollChecks(status) ==
  /\ poll.pc = "loop"
  /\ PollRuns(poll)
  /\ poll' = PollTurn(poll, status)
  /\ UNCHANGED <<memoryVars, artifactVars, cycleVars, clock, rs, tuneVars, callVars>>

\* Lines 238-241: a status check that raises.
PollCheckRaises ==
  /\ poll.pc = "loop"
  /\ PollRuns(poll)
  /\ poll' = PollTurnRaises(poll)
  /\ UNCHANGED <<memoryVars, artifactVars, cycleVars, clock, rs, tuneVars, callVars>>

\* Line 226: the retries are used up.
PollEnds ==
  /\ poll.pc = "loop"
  /\ ~PollRuns(poll)
  /\ poll' = [poll EXCEPT !.pc = "done"]
  /\ UNCHANGED <<memoryVars, artifactVars, cycleVars, clock, rs, tuneVars, callVars>>

NextPoll ==
  \/ PollSleepsFirst
  \/ \E status \in CheckResults : PollChecks(status)
  \/ PollCheckRaises
  \/ PollEnds

\* The poller is a thread of its own: it keeps running.
SpecPoll == Init /\ [][NextPoll]_vars /\ WF_vars(NextPoll)

\* ---------------------------------------------------- discoveries alone

\* Agent.record_discovery(c) returns True.
RecordDiscoveryCall(c) ==
  /\ Len(declared) < MaxDeclared
  /\ discovery' = RecordDiscovery(discovery, c, clock)
  /\ declared' = Append(declared, [content |-> c, ok |-> TRUE])
  /\ UNCHANGED <<memoryVars, artifactVars, pc, response, raised, returned, cycles,
                 folded, passes, clock, rs, tuneVars, poll, xs, ws, connections_log>>

\* Lines 433-435: the call returns False; the file could not be opened and is
\* as it was, or it was opened, which empties it, and could not be written.
RecordDiscoveryFails(c) ==
  /\ Len(declared) < MaxDeclared
  /\ discovery' \in {discovery, << >>}
  /\ declared' = Append(declared, [content |-> c, ok |-> FALSE])
  /\ UNCHANGED <<memoryVars, artifactVars, pc, response, raised, returned, cycles,
                 folded, passes, clock, rs, tuneVars, poll, xs, ws, connections_log>>

NextDiscovery ==
  \/ \E c \in DiscoveryContents : RecordDiscoveryCall(c)
  \/ \E c \in DiscoveryContents : RecordDiscoveryFails(c)
  \/ Tick

SpecDiscovery == Init /\ [][NextDiscovery]_vars

\* ------------------------------------------- the section updates alone

\* Responses handed to the section updates: the two sections of the cycle's
\* scenario; the four sections that feed the core sections; the same with a
\* "#### " sub-heading under one of them; "Next Steps" present and empty before a
\* "Next Action" with a body; a body that quotes an entry heading; a body long
\* enough to send the document over its budget.
SectionResponses ==
  { <<H3("Progress Assessment"), Txt("a", 30), Blank, H3("Next Steps"), Txt("b", 60)>>,
    <<H3("Progress Assessment"), Txt("a", 30), Blank,
      H3("Outcome and Learning Report"), Txt("o", 40), Blank,
      H3("Learnings"), Txt("c", 50), Blank,
      H3("Next Steps"), Txt("b", 60)>>,
    <<H3("Progress Assessment"), Txt("a", 30), Blank,
      H3("Outcome and Learning Report"), Txt("o", 40), Blank,
      H3("Learnings"), Txt("c", 50), SearchHeading([n |-> "q1", len |-> 20]),
      Txt("d", 45), Blank,
      H3("Next Steps"), Txt("b", 60)>>,
    <<H3("Next Steps"), H3("Next Action"), Txt("b", 60)>>,
    <<H3("Progress Assessment"), Txt("a", 30), ActionHeading(0), Txt("b", 60)>>,
    <<H3("Learnings"), Txt("c", 500)>> }

\* Memory.update_memory_sections(self.read(), r), the write succeeding.
UpdateSectionsCall(r) ==
  /\ fold.n < MaxFolds
  /\ memory_file' = AfterSections(memory_file, memory_file, r)
  /\ fold' = [n |-> fold.n + 1, op |-> "update_memory_sections", response |-> r,
              compacted |-> FALSE, raw |-> fold.raw]
  /\ UNCHANGED <<artifactVars, clock, cycleVars, rs, auxVars>>

NextSections ==
  \/ \E r \in SectionResponses : UpdateSectionsCall(r)
  \/ \E r \in SectionResponses : UpdateEfficientlyCall(r)

SpecSections == Init /\ [][NextSections]_vars

\* --------------------------------------------------- Memory.write alone

\* How many writes one behaviour of the write specification performs.
MaxWrites == 2

\* Memory.read, lines 27-37: "" when the file is missing or empty, else what the
\* file holds.
Read(file) == IF TextLen(file) = 0 THEN Empty ELSE file

\* What a write that fails after open(self.memory_file, "w") has truncated the
\* file can leave: nothing, or the lines of the content that had been flushed.
Flushed(content) == {Empty} \union {Sub(content, 1, k) : k \in 1..(Len(content) - 1)}

\* Contents handed to write: the initial document, a short document, and the
\* initial document after a fold.
WriteContents ==
  { InitialMemory,
    <<H1("Autonomous Agent Memory"), Blank, H2("Progress Summary"), Txt("a", 30)>>,
    UpdateWithActionEfficiently(
      InitialMemory,
      <<H3("Progress Assessment"), Txt("a", 30), Blank, H3("Next Steps"), Txt("b", 60)>>,
      1) }

\* Memory.write(content), lines 41-45: the file is opened, which truncates it,
\* the content is written, True is returned.
WriteCall(content) ==
  /\ ws.n < MaxWrites
  /\ memory_file' = content
  /\ ws' = [n |-> ws.n + 1, stage |-> "written", ok |-> TRUE,
            before |-> memory_file, read |-> Empty]
  /\ UNCHANGED <<fold, artifactVars, clock, cycleVars, rs, tuneVars, poll, declared, xs, connections_log>>

\* Memory.write(content), lines 41-48, when open or f.write raises: False is
\* returned; the file is as it was if open raised, and holds what had been
\* flushed if the failure came after open.
WriteFails(content) ==
  /\ ws.n < MaxWrites
  /\ memory_file' \in {memory_file} \union Flushed(content)
  /\ ws' = [n |-> ws.n + 1, stage |-> "written", ok |-> FALSE,
            before |-> memory_file, read |-> Empty]
  /\ UNCHANGED <<fold, artifactVars, clock, cycleVars, rs, tuneVars, poll, declared, xs, connections_log>>

\* Memory.read() after a write.
ReadCall ==
  /\ ws.stage = "written"
  /\ ws' = [ws EXCEPT !.stage = "read", !.read = Read(memory_file)]
  /\ UNCHANGED <<memoryVars, artifactVars, clock, cycleVars, rs, tuneVars, poll,
                 declared, xs, connections_log>>

NextWrite ==
  \/ \E content \in WriteContents : WriteCall(content)
  \/ \E content \in WriteContents : WriteFails(content)
  \/ ReadCall

SpecWrite == Init /\ [][NextWrite]_vars

\* ------------------------------------------------- _extract_section alone

\* Section names asked for.
ExtractNames == {"Progress Summary", "Next Steps and Planning", "Plan"}

\* Bodies: none at all (the next heading follows the heading at once); an empty
\* line; one line; lines around an empty one; a body to trim; a body with a
\* "### " sub-heading; a body whose sub-heading has the name of the section.
ExtractBodies(name) ==
  { << >>,
    <<Blank>>,
    <<Txt("a", 30)>>,
    <<Txt("a", 30), Blank, Txt("b", 60)>>,
    <<Blank, Txt("a", 30), Blank, Blank>>,
    <<Txt("a", 30), H3("Learnings"), Txt("b", 60)>>,
    <<Txt("a", 30), H3(name), Txt("b", 60), Blank>> }

\* What a text holds before the heading: its title; a section with a "### "
\* sub-heading of the name asked for; a topic line that ends with "## " and the
\* name.
ExtractPrefixes(name) ==
  { <<H1("Autonomous Agent Memory"), Blank>>,
    <<H2("Insights and Learnings"), Txt("c", 50), H3(name), Txt("d", 45), Blank>>,
    <<H2("Web Search Topics"), Topic(name, 3 + NameLen(name)), Blank>> }

\* What it holds after the body: another section, the text ending with or
\* without a newline.
ExtractSuffixes ==
  { <<H2("Action Summaries"), Txt("x", 10)>>,
    <<H2("Action Summaries"), Txt("x", 10), Blank>> }

\* The texts: a "## <name>" heading, the body, then another "## " heading.
ExtractCases ==
  UNION {{[NoExtract EXCEPT !.doc = prefix \o <<H2(name)>> \o body \o suffix,
                            !.name = name, !.body = body] :
            <<prefix, body, suffix>> \in
              ExtractPrefixes(name) \X ExtractBodies(name) \X ExtractSuffixes} :
         name \in ExtractNames}

InitExtract ==
  /\ memory_file = InitialMemory
  /\ clock = 0
  /\ files = [k \in Kinds |-> {}]
  /\ log = [k \in Kinds |-> << >>]
  /\ discovery = << >>
  /\ rec = IdleRecord
  /\ called = [k \in Kinds |-> << >>]
  /\ faulted = FALSE
  /\ seen = NothingSeen
  /\ pc = 0
  /\ response = Empty
  /\ raised = FALSE
  /\ returned = Empty
  /\ cycles = 0
  /\ folded = FALSE
  /\ passes = NoPasses
  /\ fold = NoFold
  /\ rs = NoReplace
  /\ InitAux
  /\ xs \in ExtractCases

\* _extract_section(doc, name)
ExtractOnce ==
  /\ xs.stage = 0
  /\ xs' = [xs EXCEPT !.stage = 1, !.out = ExtractSection(xs.doc, xs.name)]
  /\ UNCHANGED <<memoryVars, artifactVars, clock, cycleVars, rs, tuneVars, poll,
                 declared, ws, connections_log>>

NextExtract == ExtractOnce

SpecExtract == InitExtract /\ [][NextExtract]_vars

\* ------------------------------------------- cycles on a failed query

\* Responses of the cycles around a failed query: the error string; an outcome
\* of four paragraphs, which brings the document close to its budget; assessed
\* progress and next steps.
ErrorCycleResponses ==
  { ErrorResponse,
    <<H3("Outcome"), Txt("o1", 65), Blank, Txt("o2", 65), Blank, Txt("o3", 65), Blank,
      Txt("o4", 65)>>,
    <<H3("Progress Assessment"), Txt("a", 30), Blank, H3("Next Steps"), Txt("b", 60)>> }

NextErrorCycle ==
  \/ \E r \in ErrorCycleResponses : StartCycle(r)
  \/ WebSearch
  \/ RecordFindings
  \/ RecordConnections
  \/ CheckForDiscovery
  \/ FoldMemory
  \/ FoldFault
  \/ ReturnResponse

SpecErrorCycle == Init /\ [][NextErrorCycle]_vars

\* ------------------------------------------- _check_for_discovery alone

\* Responses that end with a declaration: one line; the sample of the test, a
\* title and sections under "### " sub-headings; a declaration that starts with
\* a sub-heading; two paragraphs.
DeclarationResponses ==
  { <<H3("Progress Assessment"), Txt("a", 30), Blank,
      H3("DISCOVERY_DECLARATION"), Txt("law", 40)>>,
    <<H3("Progress Assessment"), Txt("a", 30), Blank,
      H3("DISCOVERY_DECLARATION"), H2("The Law"), Blank,
      H3("Formal Statement"), Txt("law", 40), Blank,
      H3("Predictions"), Txt("proof", 60), Blank>>,
    <<H3("DISCOVERY_DECLARATION"), H3("Formal Statement"), Txt("law", 40)>>,
    <<H3("DISCOVERY_DECLARATION"), Txt("law", 50), Blank, Txt("proof", 60), Blank>> }

\* Agent._check_for_discovery(r), lines 394-402, the write of record_discovery
\* succeeding.
CheckForDiscoveryCall(r) ==
  /\ Len(declared) < MaxDeclared
  /\ response' = r
  /\ discovery' =
       IF DiscoveryDeclared(r)
       THEN RecordDiscovery(discovery, MarkedBlock(r, {"DISCOVERY_DECLARATION"}), clock)
       ELSE discovery
  /\ declared' = Append(declared, [content |-> MarkedBlock(r, {"DISCOVERY_DECLARATION"}),
                                   ok |-> TRUE])
  /\ UNCHANGED <<memoryVars, artifactVars, pc, raised, returned, cycles, folded, passes,
                 clock, rs, tuneVars, poll, xs, ws, connections_log>>

NextDeclare ==
  \/ \E r \in DeclarationResponses : CheckForDiscoveryCall(r)
  \/ Tick

SpecDeclare == Init /\ [][NextDeclare]_vars

\* ------------------------------------- folds of responses that quote

\* Responses whose bodies hold lines starting with "## ": learnings that quote
\* the heading of a persistent section; an assessment that quotes the heading of
\* a memory entry; and a response of plain bodies.
QuotingResponses ==
  { <<H3("Learnings"), Txt("c", 50), H2("Progress Summary"), Txt("d", 45)>>,
    <<H3("Progress Assessment"), Txt("a", 30), ActionHeading(0), Txt("b", 60)>>,
    <<H3("Progress Assessment"), Txt("a", 30), Blank, H3("Next Steps"), Txt("b", 60)>> }

NextQuote ==
  \/ \E r \in QuotingResponses : UpdateWithActionCall(r)
  \/ \E r \in QuotingResponses : UpdateEfficientlyCall(r)

SpecQuote == Init /\ [][NextQuote]_vars

\* --------------------------------------------- the action summaries

\* How many folds one behaviour of the summaries specification performs.
MaxSummaryFolds == 7

\* Responses with summaries of their own: the error string; assessed progress;
\* an outcome.
SummaryResponses ==
  { ErrorResponse,
    <<H3("Progress Assessment"), Txt("a", 30)>>,
    <<H3("Outcome"), Txt("o", 40)>> }

\* Memory.update_with_action_efficiently(r), one of a long run of folds.
SummaryFoldCall(r) ==
  /\ fold.n < MaxSummaryFolds
  /\ clock' = clock + 1
  /\ memory_file' = UpdateWithActionEfficiently(memory_file, r, clock')
  /\ fold' = [n |-> fold.n + 1, op |-> "update_with_action_efficiently", response |-> r,
              compacted |-> TextLen(FoldedContent(memory_file, r, clock')) > Budget,
              raw |-> FALSE]
  /\ UNCHANGED <<artifactVars, cycleVars, rs, auxVars>>

NextSummaries == \E r \in SummaryResponses : SummaryFoldCall(r)

SpecSummaries == Init /\ [][NextSummaries]_vars

\* ------------------------------------------------- the web search topics

\* Responses that name search queries: one query on two lines; three queries;
\* three more with an outcome long enough to bring the document over the
\* budget; one query named again with assessed progress; no query.
TopicResponses ==
  { <<H3("WEB_SEARCH"), Txt("q1", 20), Txt("q1", 20)>>,
    <<H3("WEB_SEARCH"), Txt("q1", 20), Txt("q2", 20), Txt("q3", 20)>>,
    <<H3("WEB_SEARCH"), Txt("q4", 20), Txt("q5", 20), Txt("q6", 20), Blank,
      H3("Outcome"), Txt("o", 400)>>,
    <<H3("WEB_SEARCH"), Txt("q2", 20), Blank, H3("Progress Assessment"), Txt("a", 30)>>,
    <<H3("Progress Assessment"), Txt("a", 30), Blank, H3("Next Steps"), Txt("b", 60)>> }

NextTopics == \E r \in TopicResponses : UpdateEfficientlyCall(r)

SpecTopics == Init /\ [][NextTopics]_vars

\* ------------------------------------------------ the connections alone

\* How many calls of _record_connection one behaviour makes.
MaxConnections == 3

\* The titles and the bodies of the connections recorded.
ConnectionTitles == {"T3", "F1"}

ConnectionBodies ==
  { <<Txt("A and B share a cause.", 40)>>,
    <<Txt("First link.", 30), QuotesNoConnectionsYet>> }

\* Agent._record_connection(title, content), lines 279-310, no I/O fault: the
\* individual file is written, the log is read and rewritten with the entry,
\* True is returned.
RecordConnectionCall(title, content) ==
  /\ Len(connections_log.calls) < MaxConnections
  /\ files' = [files EXCEPT !["connection"] =
                 WriteConnectionFile(@, Filename(clock, title), title)]
  /\ connections_log' =
       [log_content |-> WithConnection(connections_log.log_content, clock, title, content),
        returned |-> TRUE,
        calls |-> Append(connections_log.calls,
                         [title |-> title, content |-> content, timestamp |-> clock])]
  /\ UNCHANGED <<memoryVars, cycleVars, clock, log, rec, called, faulted, seen, rs,
                 tuneVars, poll, declared, xs, ws>>

NextConnections ==
  \/ \E title \in ConnectionTitles : \E content \in ConnectionBodies :
       RecordConnectionCall(title, content)
  \/ Tick

SpecConnections == Init /\ [][NextConnections]_vars

\* ---------------------------------------------------------- properties

\* The sections initialize_memory writes, which the folds keep up to date.
PersistentNames ==
  { "Agent Identity and Goal", "Progress Summary", "Recent Actions and Outcomes",
    "Next Steps and Planning", "Insights and Learnings", "Web Search Topics",
    "Action Summaries" }

\* The persistent sections whose heading "## <name>" a document holds.
SectionsPresent(doc) ==
  {name \in PersistentNames : \E i \in 1..Len(doc) : doc[i] = H2(name)}

\* The lines of a document that are the heading of an entry a fold wrote.
ActionEntries(doc) == {i \in 1..Len(doc) : HoldsActionEntry(doc[i]) /\ doc[i].ts # 0}

\* The smallest document that keeps the protected sections: the title and the
\* three of them.
ProtectedOnly(doc) ==
  AddSection(
    AddSection(
      AddSection(<<H1("Autonomous Agent Memory"), Blank, Blank>>,
                 "Agent Identity and Goal", ExtractSection(doc, "Agent Identity and Goal")),
      "Progress Summary", ExtractSection(doc, "Progress Summary")),
    "Next Steps and Planning", ExtractSection(doc, "Next Steps and Planning"))

\* The titles of a sequence are pairwise distinct.
DistinctTitles(titles) ==
  \A i, j \in 1..Len(titles) : i # j => titles[i] # titles[j]

\* Every file has exactly one entry and every entry exactly one file.
OneToOne(dir, entries) ==
  /\ \A f \in dir :
       Cardinality({i \in 1..Len(entries) :
                      entries[i].file = f.name /\ entries[i].title = f.title}) = 1
  /\ \A i \in 1..Len(entries) :
       Cardinality({f \in dir :
                      entries[i].file = f.name /\ entries[i].title = f.title}) = 1

\* C1: run_action_cycle never raises to its caller, whatever the response and
\* whichever internal step fails, and a cycle that ended returned the response.
C1_CycleNeverRaises ==
  /\ ~raised
  /\ (pc = 0 /\ cycles > 0) => returned = response

\* C2: a fold that does not compact (update_with_action or
\* update_with_action_efficiently) keeps the heading of every persistent
\* section the memory document held before it.
C2_FoldKeepsSections ==
  [][(fold'.n = fold.n + 1 /\ ~fold'.compacted)
       => SectionsPresent(memory_file) \subseteq SectionsPresent(memory_file')]_vars

\* C3: after any sequence of update_with_action calls the memory document holds
\* exactly one "## Action Taken at" entry, and it holds the latest response.
C3_SingleLatestEntry ==
  (fold.n > 0 /\ fold.raw) =>
     /\ Cardinality(ActionEntries(memory_file)) = 1
     /\ \A i \in ActionEntries(memory_file) :
          /\ memory_file[i] = ActionHeading(clock)
          /\ Sub(memory_file, i + 1, Len(memory_file)) = fold.response \o <<Blank>>

\* C4: _replace_section is idempotent: replacing twice with the same name and
\* body gives the document that replacing once gives.
C4_ReplaceIdempotent == rs.stage = 2 => rs.twice = rs.once

\* C5: when update_with_action_efficiently compacts, the document it leaves
\* takes at most max_tokens * 4 characters or, when the protected sections alone
\* take more, is the smallest document that keeps them.
C5_BudgetEnforced ==
  (fold.op = "update_with_action_efficiently" /\ fold.compacted) =>
     \/ TextLen(memory_file) <= Budget
     \/ /\ TextLen(ProtectedOnly(memory_file)) > Budget
        /\ memory_file = ProtectedOnly(memory_file)

\* C6: N calls of _record_finding with pairwise distinct titles, none hit by a
\* fault, leave N individual files and N entries in the findings log.
C6_DistinctTitlesDistinctFiles ==
  (rec.step = 0 /\ ~faulted /\ DistinctTitles(called["finding"])) =>
     /\ Cardinality(files["finding"]) = Len(called["finding"])
     /\ Len(log["finding"]) = Len(called["finding"])

\* C7: after every call of _record_finding, whatever it returned, the individual
\* finding files and the entries of the findings log correspond one to one.
C7_FilesMatchEntries == rec.step = 0 => OneToOne(files["finding"], log["finding"])

\* C8: the individual file is written before the aggregate log is rewritten: at
\* every point of every record operation each entry of the log has its file, and
\* a dashboard that reads the log and then lists the files finds the file of
\* each entry it read.
C8_EntryHasFile ==
  /\ \A k \in Kinds : \A i \in 1..Len(log[k]) : log[k][i].file \in Names(files[k])
  /\ \A i \in 1..Len(seen.entries) : seen.entries[i].file \in Names(files[seen.kind])
  /\ seen.listed => \A i \in 1..Len(seen.entries) : seen.entries[i].file \in seen.names

\* A record operation has written its file and not yet the log, while the
\* dashboard has read a log that holds an entry and listed the files.
C8_Witness ==
  /\ rec.step > 1
  /\ rec.name \in Names(files[rec.kind])
  /\ seen.kind = rec.kind /\ seen.listed /\ seen.entries # << >>

\* C9: in a cycle every recording of a finding, a connection or a discovery
\* happens before the memory fold of that cycle.
C9_RecordingBeforeFold ==
  [][(files' # files \/ log' # log \/ discovery' # discovery) => ~folded]_vars

\* The fold of a cycle has run after a finding, a connection and a discovery of
\* that cycle or an earlier one were recorded.
C9_Witness ==
  /\ folded
  /\ \E k \in Kinds : \E i \in 1..Len(log[k]) : log[k][i].cycle = cycles + 1
  /\ discovery # << >>

\* C10: the heuristic pass of a kind runs only when the tagged pass of that kind
\* returned nothing, and no cycle records artifacts of one kind from both passes.
C10_HeuristicOnlyWithoutTagged ==
  /\ \A k \in Kinds : passes[k] # {"tagged", "heuristic"}
  /\ \A k \in Kinds : \A i, j \in 1..Len(log[k]) :
       log[k][i].cycle = log[k][j].cycle => log[k][i].pass = log[k][j].pass

\* A response with tagged artifacts and lines the heuristic patterns match has
\* had its tagged finding and its tagged connection recorded.
C10_Witness ==
  /\ AtStep("discovery")
  /\ ExtractImplicitFindings(response) # << >>
  /\ ExtractImplicitConnections(response) # << >>
  /\ \A k \in Kinds :
       /\ passes[k] = {"tagged"}
       /\ \E i \in 1..Len(log[k]) : log[k][i].cycle = cycles + 1 /\ log[k][i].pass = "tagged"

\* The jobs the service is running.
RunningJobs == {j \in JobIds : jobs[j] = "running"}

\* C11: at most one fine-tuning job is active at any time, under every
\* interleaving of run_fine_tuning with the status checks of the pollers:
\* run_fine_tuning never goes on to create a job while one is running, and no
\* two jobs run at once.
C11_OneActiveJob ==
  /\ threads[MainThread].pc = "create" => RunningJobs = {}
  /\ Cardinality(RunningJobs) <= 1

\* C12: a status check that finds its job succeeded leaves no active job and
\* the model of that job both in use (model_id) and stored
\* (fine_tuned_model_id).
C12_SucceededSwapsModel ==
  [][\A t \in Threads :
       (threads[t].pc = "retrieve" /\ threads'[t].pc # "retrieve"
          /\ threads'[t].status = "succeeded")
       => /\ model_state'.active_fine_tuning_job = None
          /\ model_id' = FineTunedModel(threads[t].job_id)
          /\ model_state'.fine_tuned_model_id = FineTunedModel(threads[t].job_id)]_vars

\* A status check has just found the active job succeeded, while another model
\* than the base one was in use before.
C12_Witness ==
  \E t \in Threads :
    /\ threads[t].status = "succeeded" /\ threads[t].pc # "retrieve"
    /\ threads[t].job_id > 1
    /\ model_id = FineTunedModel(threads[t].job_id)
    /\ model_state.active_fine_tuning_job = None

\* C13: a status check that finds its job failed or cancelled leaves no active
\* job, the terminal status in the entry of the job in the history, and the
\* model in use and the stored fine-tuned model as they were.
C13_FailedClearsJob ==
  [][\A t \in Threads :
       (threads[t].pc = "retrieve" /\ threads'[t].pc # "retrieve"
          /\ threads'[t].status \in {"failed", "cancelled"})
       => /\ model_state'.active_fine_tuning_job = None
          /\ \E i \in 1..Len(model_state'.fine_tuning_history) :
               /\ model_state'.fine_tuning_history[i].job_id = threads[t].job_id
               /\ model_state'.fine_tuning_history[i].status = threads'[t].status
          /\ model_id' = model_id
          /\ model_state'.fine_tuned_model_id = model_state.fine_tuned_model_id]_vars

\* A status check has just found the active job failed or cancelled, with a
\* fine-tuned model of an earlier job in use.
C13_Witness ==
  \E t \in Threads :
    /\ threads[t].status \in {"failed", "cancelled"} /\ threads[t].pc # "retrieve"
    /\ model_state.active_fine_tuning_job = None
    /\ model_id # base_model_id
    /\ \E i \in 1..Len(model_state.fine_tuning_history) :
         /\ model_state.fine_tuning_history[i].job_id = threads[t].job_id
         /\ model_state.fine_tuning_history[i].status = threads[t].status

\* C14: _poll_fine_tuning_job ends, after at most max_retries status checks, at
\* the first status check that returns a terminal status, and never sleeps more
\* than 600 seconds between two status checks.
C14_PollingTerminates ==
  /\ <>(poll.pc = "done")
  /\ [](/\ poll.checks <= max_retries
        /\ poll.slept <= MaxDelay * Ticks
        /\ poll.ended => poll.pc = "done")

\* The poller has ended after max_retries status checks, none of which found
\* the job ended, its last sleep the longest allowed.
C14_Witness ==
  /\ poll.pc = "done"
  /\ poll.checks = max_retries
  /\ ~poll.ended
  /\ poll.slept = MaxDelay * Ticks

\* C15: after any sequence of record_discovery calls that all succeeded,
\* data/findings.txt holds one entry, that of the last call, and nothing of the
\* earlier ones.
C15_DiscoveryOverwritesLatest ==
  (declared # << >> /\ \A i \in 1..Len(declared) : declared[i].ok) =>
     /\ Len(discovery) = 1
     /\ discovery[1].content = declared[Len(declared)].content

\* Two discoveries with different contents have been recorded one after the
\* other, and the file holds the second.
C15_Witness ==
  /\ Len(declared) >= 2
  /\ \A i \in 1..Len(declared) : declared[i].ok
  /\ declared[Len(declared) - 1].content # declared[Len(declared)].content
  /\ discovery = <<FormattedDiscovery(declared[Len(declared)].content, clock)>>

\* The body of the minor section of a response: the lines after its heading
\* "### <name>" up to the next "### " heading or the end; Empty when the response
\* has no such section.
MinorBody(r, name) ==
  LET S == {i \in 1..Len(r) : r[i] = H3(name)}
      i == Min(S)
      E == {j \in (i + 1)..Len(r) : r[j].k = "h3"}
  IN IF S = {} THEN Empty
     ELSE Strip(Sub(r, i + 1, (IF E = {} THEN Len(r) + 1 ELSE Min(E)) - 1) \o <<Blank>>)

\* The response is made of "### " headings and lines of prose.
PlainResponse(r) == \A i \in 1..Len(r) : r[i].k \in {"h3", "txt", "blank"}

\* A step of update_with_action_efficiently on a response whose sections are
\* "Progress Assessment" and "Next Steps".
FoldOfTwoSections ==
  /\ fold'.n = fold.n + 1
  /\ fold'.op = "update_with_action_efficiently"
  /\ PlainResponse(fold'.response)
  /\ SectionNames(fold'.response) = {"Progress Assessment", "Next Steps"}

\* The two sections take the bodies of the response.
TwoSectionsTaken ==
  /\ ExtractSection(memory_file', "Progress Summary")
       = MinorBody(fold'.response, "Progress Assessment")
  /\ ExtractSection(memory_file', "Next Steps and Planning")
       = MinorBody(fold'.response, "Next Steps")

SectionsKept(names) ==
  \A name \in names :
    ExtractSection(memory_file', name) = ExtractSection(memory_file, name)

SectionsUpdated ==
  /\ fold'.n = fold.n + 1
  /\ fold'.op = "update_memory_sections"

\* The four core sections and the section of the response that feeds each in
\* the test of the section update.
CoreSections ==
  << <<"Progress Summary", "Progress Assessment">>,
     <<"Recent Actions and Outcomes", "Outcome and Learning Report">>,
     <<"Next Steps and Planning", "Next Steps">>,
     <<"Insights and Learnings", "Learnings">> >>

\* C17: when the document has the four core sections and the response has
\* non-empty "Progress Assessment", "Outcome and Learning Report", "Next Steps"
\* and "Learnings" sections, update_memory_sections leaves a document whose four
\* core sections hold the trimmed bodies of those sections of the response.
C17_FourSectionsStored ==
  [][(/\ SectionsUpdated
      /\ \A m \in 1..Len(CoreSections) :
           /\ CoreSections[m][1] \in SectionsPresent(memory_file)
           /\ ~IsEmpty(MinorBody(fold'.response, CoreSections[m][2]))) =>
       \A m \in 1..Len(CoreSections) :
         ExtractSection(memory_file', CoreSections[m][1])
           = MinorBody(fold'.response, CoreSections[m][2])]_vars

\* The bodies a persistent section may take from a response: those of its
\* acceptable sections that are not empty.
AcceptableBodies(patterns, action_sections) ==
  {action_sections[patterns[k]] :
     k \in {j \in 1..Len(patterns) : patterns[j] \in DOMAIN action_sections}}
    \ {Empty}

\* C18: update_memory_sections replaces a persistent section whenever one of its
\* acceptable sections occurs in the response with a non-empty body ("Next Steps
\* and Planning" when "Next Steps" is there and empty and "Next Action" is there
\* with a body), and never replaces one by an empty body.
C18_ReplacedWhenSomeBody ==
  [][SectionsUpdated =>
       \A m \in 1..Len(SectionsToUpdate) :
         LET section_name == SectionsToUpdate[m][1]
             bodies == AcceptableBodies(SectionsToUpdate[m][2],
                                        SplitIntoSections(fold'.response))
             stored == ExtractSection(memory_file', section_name)
         IN /\ bodies # {} => stored \in bodies
            /\ stored # ExtractSection(memory_file, section_name)
                 => ~IsEmpty(stored)]_vars

\* C19: Memory.write is atomic for its caller: after a write that failed, at
\* whatever point, and returned False, Memory.read returns the whole content
\* that was stored before that write.
C19_WriteIsAtomic ==
  (ws.stage = "read" /\ ~ws.ok) => ws.read = ws.before

\* trim(B) for the lines B between two headings: the empty text when there are
\* none.
Trimmed(body) == IF body = << >> THEN Empty ELSE Strip(body)

\* C20: for every text that holds a "## S" heading, a body B and then another
\* "## " heading, _extract_section(T, S) is B without its leading and trailing
\* whitespace, whatever S and B (bodies with "### " sub-headings included).
C20_ExtractGivesTrimmedBody ==
  xs.stage = 1 => xs.out = Trimmed(xs.body)

\* A step of a cycle whose query failed: the response is the error string.
ErrorCycleStep == pc > 0 /\ response = ErrorResponse

\* The step records nothing, raises nothing, and the cycle that returns returns
\* the error string.
ErrorFlowsThrough ==
  /\ files' = files /\ log' = log /\ discovery' = discovery
  /\ ~raised'
  /\ pc' = 0 => returned' = ErrorResponse

\* The four core sections, as update_memory_sections lists them.
CoreNames == {SectionsToUpdate[m][1] : m \in 1..Len(SectionsToUpdate)}

TitlesOf(artifacts) == {artifacts[i].title : i \in 1..Len(artifacts)}

\* The entries a step adds to the log of a kind carry titles extracted from the
\* text.
RecordedFrom(kind, text) ==
  \A i \in 1..Len(log'[kind]) :
    log'[kind][i].cycle = cycles + 1 =>
      \/ i <= Len(log[kind]) /\ log[kind][i] = log'[kind][i]
      \/ log'[kind][i].title \in
           IF kind = "finding"
           THEN TitlesOf(ExtractFindings(text)) \union TitlesOf(ExtractImplicitFindings(text))
           ELSE TitlesOf(ExtractConnections(text))
                  \union TitlesOf(ExtractImplicitConnections(text))

AtRecording ==
  pc > 0 /\ CycleSteps[pc] \in {"findings", "connections", "discovery"}

\* C23: a failure inside _record_finding, _record_connection or record_discovery
\* is caught and becomes the return value False: it never leaves the recorder,
\* the cycle goes on to its next recording and to the fold, and a cycle returns
\* only after its fold.
C23_RecordingFaultsContained ==
  [][/\ AtRecording => (~raised' /\ pc' = pc + 1 /\ response' = response)
     /\ (pc > 0 /\ pc' = 0 /\ ~raised') => folded]_vars

\* A write of the finding of a cycle failed, and the cycle has recorded its
\* connection, folded its response into the memory and returned.
C23_Witness ==
  /\ faulted
  /\ pc = 0 /\ cycles = 1 /\ folded
  /\ ExtractFindings(returned) # << >>
  /\ log["finding"] = << >>
  /\ \E i \in 1..Len(log["connection"]) : log["connection"][i].cycle = 1
  /\ memory_file # InitialMemory

\* The declaration of a response: what follows the line of the marker, trimmed.
Declaration(r) ==
  LET i == Min({j \in 1..Len(r) : r[j] = H3("DISCOVERY_DECLARATION")})
  IN Strip(Sub(r, i + 1, Len(r)) \o <<Blank>>)

\* C24: after _check_for_discovery of a response that holds the marker
\* "### DISCOVERY_DECLARATION" and a declaration after it, data/findings.txt
\* exists, is not empty and holds the whole declaration, "###" sub-headings of
\* the declaration included.
C24_WholeDeclarationStored ==
  declared # << >> =>
    /\ Len(discovery) = 1
    /\ discovery[1].content = Declaration(response)

\* The lines of a document that are the heading "## <name>".
HeadingsOf(doc, name) == {i \in 1..Len(doc) : doc[i] = H2(name)}

\* C25: in every memory document the folds reach from the initial one, whatever
\* the responses (bodies with lines starting with "## " included), the heading
\* of each persistent section occurs at most once.
C25_HeadingsUnique ==
  \A name \in PersistentNames : Cardinality(HeadingsOf(memory_file, name)) <= 1

\* The summaries the "Action Summaries" section of a document holds, in the
\* order of the section.
SummariesOf(doc) ==
  SelectSeq(ExtractSection(doc, "Action Summaries"), LAMBDA l : l.k \in {"sum", "sum_"})

\* The header line of the section, as initialize_memory writes it.
SummariesHeader == ExtractSection(InitialMemory, "Action Summaries")[1]

\* C26: after any number of folds by update_with_action_efficiently from the
\* initial document, "Action Summaries" holds its header line and at most
\* max_summaries (5) summaries, the most recent ones, the newest first.
C26_FiveLatestSummaries ==
  LET section == ExtractSection(memory_file, "Action Summaries")
      summaries == SummariesOf(memory_file)
  IN /\ \E i \in 1..Len(section) : section[i] = SummariesHeader
     /\ Len(summaries) <= 5
     /\ \A i \in 1..Len(summaries) : summaries[i].ts = clock - (i - 1)

\* The topics a text holds, as the folds add them ("- query" lines), in order.
TopicsOf(t) == SelectSeq(t, LAMBDA l : l.k = "topic")

\* C27: after any folds by update_with_action_efficiently no search query
\* stands more than once in "Web Search Topics", whether one response names
\* it on two lines or an earlier fold added it.
C27_TopicsDistinct ==
  LET topics == TopicsOf(ExtractSection(memory_file, "Web Search Topics"))
  IN \A i, j \in 1..Len(topics) : topics[i].n = topics[j].n => i = j

\* C28: when the compaction of a fold cuts "Web Search Topics", the topics it
\* keeps are the most recently added ones, at most 10: the folds add topics at
\* the end, so what is kept is the end of what the section held.
C28_LatestTopicsKept ==
  [][ (/\ fold'.n = fold.n + 1
       /\ fold'.op = "update_with_action_efficiently"
       /\ fold'.compacted)
      => LET content == FoldedContent(memory_file, fold'.response, clock')
             topics_before == TopicsOf(ExtractSection(content, "Web Search Topics"))
             topics_after == TopicsOf(ExtractSection(memory_file', "Web Search Topics"))
         IN /\ Len(topics_after) <= 10
            /\ Len(topics_after) <= Len(topics_before)
            /\ topics_after = Sub(topics_before, Len(topics_before) - Len(topics_after) + 1, Len(topics_before)) ]_vars

\* The entries of a connections log: its "### timestamp - title" lines, in order.
ConnectionEntries(log_content) == SelectSeq(log_content, LAMBDA l : l.k = "h3")

\* C29: each call of _record_connection(title, body) that no I/O fault hits
\* returns True, leaves the individual file of the connection and adds exactly
\* one entry for it to the connections log: in place of "No connections
\* recorded yet." at the first call, at the end of the log afterwards.
C29_ConnectionsAccumulate ==
  [][ Len(connections_log'.calls) = Len(connections_log.calls) + 1
      => LET call == connections_log'.calls[Len(connections_log'.calls)]
             heading == ConnectionHeading(call.timestamp, call.title)
             log_before == connections_log.log_content
             log_after == connections_log'.log_content
         IN /\ connections_log'.returned
            /\ [name |-> Filename(call.timestamp, call.title), title |-> call.title]
                 \in files'["connection"]
            /\ ConnectionEntries(log_after) = Append(ConnectionEntries(log_before), heading)
            /\ IF connections_log.calls = << >>
               THEN log_after = ReplaceNoConnectionsYet(log_before, <<heading>> \o call.content)
               ELSE log_after = RStrip(log_before) \o <<heading>> \o call.content \o <<Blank>> ]_vars

\* C30: the document Memory.update_with_action writes never takes more than
\* the budget of max_tokens * 4 characters, whatever the document before and
\* however long the response, the truncation of lines 73-80 included.
C30_WrittenWithinBudget ==
  (fold.n > 0 /\ fold.op = "update_with_action") => TextLen(memory_file) <= Budget

====
